---- MODULE Spec2Model ----
(***************************************************************************)
(* A model of the satsnet-api request layer: the tryit result combinators, *)
(* the envelope unwrap and request identity of the two HTTP clients        *)
(* (HttpClient over ofetch, AdvancedHttpClient over undici), their         *)
(* response cache and metrics, and SatsNetClient.batchRequest.             *)
(*                                                                         *)
(* Four specifications share the module:                                   *)
(*   SpecFn    the pure functions and the tryit combinators, applied to    *)
(*             inputs drawn from bounded sets;                             *)
(*   Spec      one HttpClient instance serving get/post calls that         *)
(*             interleave at their awaits;                                 *)
(*   SpecAdv   one AdvancedHttpClient instance serving get/post calls,     *)
(*             each a run of tryitWithRetry over its attempts;             *)
(*   SpecBatch SatsNetClient.batchRequest over tryitAll.                   *)
(***************************************************************************)
EXTENDS Integers, Sequences, FiniteSets, TLC

VARIABLES
    applied,    \* SpecFn: the last application of a pure function, with its result
    retry,      \* SpecFn: the running tryitWithRetry call
    batch,      \* SpecBatch: the running SatsNetClient.batchRequest call
    client,     \* Spec: which class the instance is, "http" or "adv"
    config,     \* Spec: this.config
    now,        \* Spec: Date.now()
    cache,      \* Spec: this.cache, a map from cache key to {data, timestamp}
    metrics,    \* Spec: this.metrics
    calls,      \* Spec: the get/post calls in progress, one per slot
    fetched,    \* Spec (history): per cache entry, how the unwrap of the response
                \* it was stored from ended
    ops,        \* Spec (history): operations started so far
    dispatcher, \* SpecAdv: this.dispatcher, the undici Pool in use: which one
                \* (gen) and whether its close() has been called
    sweeps      \* Spec: how many cleanupCache timers storeInCache has set, and
                \* how many of them have run

fnVars == <<applied, retry>>
batchVars == <<batch>>
engineVars ==
    <<client, config, now, cache, metrics, calls, fetched, ops, dispatcher, sweeps>>

vars == <<fnVars, batchVars, engineVars>>

\* what the actions of one specification leave alone
nonFnVars == <<batchVars, engineVars>>
nonBatchVars == <<fnVars, engineVars>>
nonEngineVars == <<fnVars, batchVars>>

(***************************************************************************)
(* Bounds of the model.                                                    *)
(***************************************************************************)
\* largest maxRetries handed to tryitWithRetry
MaxAttempts == 3
\* longest list of calls handed to batchRequest
MaxBatch == 3
\* operations started on one client instance
MaxOps == 2
\* the clock runs from 0 to MaxTime
MaxTime == 2
\* config.cacheMaxAge in clock ticks (the code's default is 300000 ms)
CacheMaxAge == 1
\* largest config.retries of an AdvancedHttpClient (the code's default is 3)
MaxRetries == 2
\* a store that leaves more than MaxEntries entries in the cache sets the
\* timer of the sweep (the code's threshold is 500)
MaxEntries == 1

\* satsnet-client.ts: the limits and error codes of the argument validation
DefaultConnections == 50
MinAddressLength == 20
MaxAddressLength == 100
TxidLength == 64
InvalidAddressCode == -1001
InvalidTxidCode == -1002

Range(s) == {s[i] : i \in DOMAIN s}

(***************************************************************************)
(* JavaScript values a decoded response body can be.  A value is either a  *)
(* primitive/plain payload (named by an atom) or an object with a `code`   *)
(* property (the wire envelope {code, msg, data?}).                        *)
(***************************************************************************)
Falsy == {"null", "undefined", "zero", "false", "empty"}
Atoms == Falsy \cup {"d1", "d2"}
\* what JSON can carry (undefined is not a JSON value)
JsonAtoms == Atoms \ {"undefined"}

Prim(a) == [k |-> "prim", code |-> 0, has |-> FALSE, data |-> a, msg |-> "-"]

\* {code: c, msg: m, data: d} when h, {code: c, msg: m} otherwise; reading
\* the data property of the latter gives undefined
Env(c, h, d, m) ==
    [k |-> "env", code |-> c, has |-> h, data |-> IF h THEN d ELSE "undefined", msg |-> m]

Null == Prim("null")
Undefined == Prim("undefined")

\* JavaScript truthiness: every object is truthy, the atoms of Falsy are not
Truthy(v) == v.k = "env" \/ v.data \notin Falsy

\* a ?? b
Nullish(v) == v.k = "prim" /\ v.data \in {"null", "undefined"}

(***************************************************************************)
(* Thrown values.  cls tells what `instanceof` sees: a SatsnetApiError, any *)
(* other Error, or a value that is no Error at all.  code and status are   *)
(* optional numbers, kept as sets of at most one element.  msg is the      *)
(* message as the sequence of the pieces it was concatenated from, so that *)
(* String.prototype.includes is membership of a piece.                     *)
(***************************************************************************)
Includes(msg, piece) == piece \in Range(msg)

SatsnetApiError(message, code, data) ==
    [cls |-> "SatsnetApiError", name |-> "SatsnetApiError", code |-> {code},
     status |-> {}, msg |-> message, data |-> data]

\* an Error that is not a SatsnetApiError
JsError(name, status, message) ==
    [cls |-> "Error", name |-> name, code |-> {}, status |-> status,
     msg |-> message, data |-> "-"]

\* a thrown value that is not an Error: a string, null, a plain object, or an
\* object without toString/valueOf ("bare", e.g. Object.create(null))
Thrown(kind) ==
    [cls |-> "value", name |-> kind, code |-> {}, status |-> {},
     msg |-> <<>>, data |-> "-"]

\* the null on the error side of an (error, value) pair
NoError ==
    [cls |-> "null", name |-> "-", code |-> {}, status |-> {}, msg |-> <<>>, data |-> "-"]

\* String(x) throws this for an object that cannot be converted to a primitive
TypeErrorCannotConvert == JsError("TypeError", {}, <<"Cannot convert object to primitive value">>)

\* how a promise settles
Resolve(v) == [ok |-> TRUE, val |-> v, err |-> NoError]
Reject(e) == [ok |-> FALSE, val |-> Undefined, err |-> e]

(***************************************************************************)
(* tryit.ts: wrapError / wrapGenericError                                  *)
(***************************************************************************)
wrapGenericError(error) ==
    IF Includes(error.msg, "fetch") \/ Includes(error.msg, "network")
    THEN SatsnetApiError(<<"Network error: ">> \o error.msg, -7, "NETWORK_ERROR")
    ELSE IF Includes(error.msg, "JSON") \/ Includes(error.msg, "parse")
    THEN SatsnetApiError(<<"Invalid response format: ">> \o error.msg, -8, "PARSE_ERROR")
    ELSE IF Includes(error.msg, "timeout") \/ error.name = "AbortError"
    THEN SatsnetApiError(<<"Request timeout: ">> \o error.msg, -9, "TIMEOUT_ERROR")
    ELSE SatsnetApiError(<<"Unexpected error: ">> \o error.msg, -10, "UNEXPECTED_ERROR")

\* String(error) in the last branch of wrapError throws a TypeError for an
\* object that has no toString and no valueOf
WrapThrows(error) == error.cls = "value" /\ error.name = "bare"

wrapError(error) ==
    IF error.cls = "SatsnetApiError" THEN error
    ELSE IF error.cls = "Error" THEN wrapGenericError(error)
    ELSE SatsnetApiError(<<"Unknown error: ", error.name>>, -11, "UNKNOWN_ERROR")

(***************************************************************************)
(* The settled state of a promise of an (error, value) pair.               *)
(***************************************************************************)
Pair(e, v) == [st |-> "fulfilled", err |-> e, val |-> v, reason |-> NoError]
Rejected(r) == [st |-> "rejected", err |-> NoError, val |-> Null, reason |-> r]

\* tryit(fn)(...) for an fn that settles as `o`
tryit(o) ==
    IF o.ok THEN Pair(NoError, o.val)
    ELSE IF WrapThrows(o.err) THEN Rejected(TypeErrorCannotConvert)
    ELSE Pair(wrapError(o.err), Null)

\* the test of line 75: lastError.code && lastError.code >= 400 && lastError.code < 500
IsClientError(e) == \E c \in e.code : c # 0 /\ c >= 400 /\ c < 500

\* RetryDecision without the client-error test of lines 75-77
RetryDecisionRetriesClientErrors(lastError, attempt, maxRetries) ==
    IF attempt = maxRetries THEN "break" ELSE "wait"

\* tryitOrDefault(fn, defaultValue)(...) for an fn that settles as `o`: how
\* the promise it returns settles
tryitOrDefault(o, defaultValue) ==
    LET pair == tryit(o)
    IN  IF pair.st = "rejected" THEN Reject(pair.reason)
        ELSE IF pair.err # NoError THEN Resolve(defaultValue)
        ELSE Resolve(pair.val)

\* a catch block that gives up after any failed attempt
RetryDecisionGivesUp(lastError, attempt, maxRetries) == "break"

\* what the catch block of tryitWithRetry decides after a failed attempt
RetryDecision(lastError, attempt, maxRetries) ==
    IF IsClientError(lastError) THEN "break"
    ELSE IF attempt = maxRetries THEN "break"
    ELSE "wait"

(***************************************************************************)
(* http.ts / advanced-http.ts: processResponse                             *)
(***************************************************************************)
processResponse(data) ==
    IF data.k = "env"
    THEN IF data.code # 0
         THEN Reject(SatsnetApiError(<<"API Error: ", data.msg>>, data.code, data.data))
         ELSE Resolve(IF Nullish(Prim(data.data)) THEN data ELSE Prim(data.data))
    ELSE Resolve(data)

advProcessResponse(data) ==
    IF data.k = "env"
    THEN IF data.code # 0
         THEN Reject(SatsnetApiError(<<"API Error: ", data.msg>>, data.code, data.data))
         ELSE Resolve(IF Nullish(Prim(data.data)) THEN data ELSE Prim(data.data))
    ELSE Resolve(data)

(***************************************************************************)
(* Request identity.  A parameter mapping is the sequence of its entries   *)
(* in insertion order (Object.entries of non-numeric string keys).  A URL  *)
(* is kept structurally: the path segments and the query entries in the    *)
(* order they were appended.                                               *)
(***************************************************************************)
ParamKeys == {"a", "b"}
ParamVals == {"n1", "s1", "n2", "null", "undefined"}

\* String(value)
StringOf(v) ==
    CASE v = "n1" -> "1"
      [] v = "s1" -> "1"
      [] v = "n2" -> "2"
      [] OTHER -> v

Entry(key, val) == [key |-> key, val |-> val]

ParamMaps ==
    {<<>>}
    \cup {<<Entry(x, v)>> : x \in ParamKeys, v \in ParamVals}
    \cup {<<Entry(x, v), Entry(y, w)>> :
            x \in ParamKeys, y \in ParamKeys, v \in ParamVals, w \in ParamVals}

WellFormed(params) ==
    \A i, j \in DOMAIN params : i # j => params[i].key # params[j].key

RECURSIVE AppendParams(_, _)
AppendParams(search, params) ==
    IF params = <<>> THEN search
    ELSE LET e == Head(params)
         IN  AppendParams(
                 IF e.val \notin {"undefined", "null"}
                 THEN Append(search, <<e.key, StringOf(e.val)>>)
                 ELSE search,
                 Tail(params))

\* HttpClient.buildUrl: url.pathname + url.search
buildUrl(cfg, path, params) ==
    [pathname |-> <<cfg.chain, cfg.network, path>>, search |-> AppendParams(<<>>, params)]

createCacheKey(url) == url

\* AdvancedHttpClient.buildUrlWithCacheKey
buildUrlWithCacheKey(cfg, path, params) ==
    LET pathname == <<cfg.chain, cfg.network, path>>
        search == AppendParams(<<>>, params)
    IN  [url |-> [base |-> cfg.baseUrl, pathname |-> pathname, search |-> search],
         cacheKey |-> [pathname |-> pathname, search |-> search]]

DefaultConfig ==
    [baseUrl |-> "https://apiprd.ordx.market", network |-> "mainnet", chain |-> "btc"]

(***************************************************************************)
(* tryit.ts: tryitAll, and SatsNetClient.batchRequest on top of it.  A     *)
(* call of the batch is a facade method; how it settles is drawn when it   *)
(* settles.                                                                *)
(***************************************************************************)
\* the loop of tryitAll over the allSettled results, from index i on
RECURSIVE Collect(_, _, _, _)
Collect(results, i, errors, values) ==
    IF i > Len(results) THEN [errors |-> errors, values |-> values]
    ELSE LET result == results[i]
         IN  IF result.st = "fulfilled"
             THEN IF result.err # NoError
                  THEN Collect(results, i + 1, Append(errors, result.err), values)
                  ELSE IF result.val # Null
                  THEN Collect(results, i + 1, errors, Append(values, result.val))
                  ELSE Collect(results, i + 1, errors, values)
             ELSE Collect(results, i + 1, Append(errors, wrapError(result.reason)), values)

\* tryitAll(fns) for fns that settle as outs[1], outs[2], ...
tryitAll(outs) == Collect([i \in DOMAIN outs |-> tryit(outs[i])], 1, <<>>, <<>>)

\* errors.map((e) => e.message).join('; ')
RECURSIVE JoinMessages(_)
JoinMessages(errors) ==
    IF errors = <<>> THEN <<>>
    ELSE IF Len(errors) = 1 THEN errors[1].msg
    ELSE errors[1].msg \o <<"; ">> \o JoinMessages(Tail(errors))

SupportedMethods == {"getBestHeight", "getNameInfo"}
Methods == SupportedMethods \cup {"bogus"}

\* how batchRequest settles: st is resolved or rejected; a rejection carries
\* the SatsnetApiError's message, code and data.errors
BatchResolved(values) ==
    [st |-> "resolved", values |-> values, msg |-> <<>>, code |-> {}, errors |-> <<>>]
BatchRejected(message, code, errors) ==
    [st |-> "rejected", values |-> <<>>, msg |-> message, code |-> {code}, errors |-> errors]

\* lines 414-425 of satsnet-client.ts
batchRequest(outs) ==
    LET all == tryitAll(outs)
    IN  IF Len(all.errors) > 0
        THEN BatchRejected(<<"Batch requests failed: ">> \o JoinMessages(all.errors),
                           -1, all.errors)
        ELSE BatchResolved(all.values)

Pending == [ok |-> FALSE, val |-> Undefined, err |-> Thrown("pending")]

BatchIdle == [pc |-> "idle", methods |-> <<>>, outs |-> <<>>, res |-> BatchResolved(<<>>)]

BatchIdleInit == batch = BatchIdle

(***************************************************************************)
(* One client instance.  HttpClient (http.ts) and AdvancedHttpClient       *)
(* (advanced-http.ts) keep the same state: config, cache, metrics.         *)
(***************************************************************************)
\* (connections and keepAlive, with the defaults of the constructor of
\* AdvancedHttpClient, are read by that client only)
EngineConfig(cacheOn, metricsOn, retries) ==
    [baseUrl |-> DefaultConfig.baseUrl, network |-> DefaultConfig.network,
     chain |-> DefaultConfig.chain, cache |-> cacheOn, cacheMaxAge |-> CacheMaxAge,
     metrics |-> metricsOn, retries |-> retries,
     connections |-> DefaultConnections, keepAlive |-> FALSE]

\* averageLatency is kept as the quotient it was computed from
Quotient(n, d) == [num |-> n, den |-> d]

ZeroMetrics ==
    [requestCount |-> 0, errorCount |-> 0, averageLatency |-> Quotient(0, 1),
     totalLatency |-> 0, cacheHits |-> 0, cacheMisses |-> 0]

\* a Map with no entries
EmptyMap == [k \in {} |-> k]

\* map.set(key, value)
MapSet(map, key, value) ==
    [k \in DOMAIN map \cup {key} |-> IF k = key THEN value ELSE map[k]]

\* the entries of map whose keys are in keys
Restrict(map, keys) == [k \in DOMAIN map \cap keys |-> map[k]]

\* a checkCache that serves an entry whatever its age
checkCacheNeverExpires(cfg, t, c, m, cacheKey) ==
    IF ~cfg.cache THEN [data |-> Null, hit |-> FALSE, cache |-> c, metrics |-> m]
    ELSE IF cacheKey \notin DOMAIN c
    THEN [data |-> Null, hit |-> FALSE, cache |-> c,
          metrics |-> [m EXCEPT !.cacheMisses = @ + 1]]
    ELSE [data |-> c[cacheKey].data, hit |-> TRUE, cache |-> c,
          metrics |-> [m EXCEPT !.cacheHits = @ + 1]]

\* HttpClient.checkCache: the value returned, the cache and the metrics after
checkCache(cfg, t, c, m, cacheKey) ==
    IF ~cfg.cache THEN [data |-> Null, hit |-> FALSE, cache |-> c, metrics |-> m]
    ELSE IF cacheKey \notin DOMAIN c
    THEN [data |-> Null, hit |-> FALSE, cache |-> c,
          metrics |-> [m EXCEPT !.cacheMisses = @ + 1]]
    ELSE IF t - c[cacheKey].timestamp > cfg.cacheMaxAge
    THEN [data |-> Null, hit |-> FALSE,
          cache |-> Restrict(c, DOMAIN c \ {cacheKey}),
          metrics |-> [m EXCEPT !.cacheMisses = @ + 1]]
    ELSE [data |-> c[cacheKey].data, hit |-> TRUE, cache |-> c,
          metrics |-> [m EXCEPT !.cacheHits = @ + 1]]

\* AdvancedHttpClient.checkCache: an absent key is not counted as a miss
advCheckCache(cfg, t, c, m, cacheKey) ==
    IF ~cfg.cache THEN [data |-> Null, hit |-> FALSE, cache |-> c, metrics |-> m]
    ELSE IF cacheKey \notin DOMAIN c
    THEN [data |-> Null, hit |-> FALSE, cache |-> c, metrics |-> m]
    ELSE IF t - c[cacheKey].timestamp > cfg.cacheMaxAge
    THEN [data |-> Null, hit |-> FALSE,
          cache |-> Restrict(c, DOMAIN c \ {cacheKey}),
          metrics |-> [m EXCEPT !.cacheMisses = @ + 1]]
    ELSE [data |-> c[cacheKey].data, hit |-> TRUE, cache |-> c,
          metrics |-> [m EXCEPT !.cacheHits = @ + 1]]

\* a storeInCache that stores whatever config.cache says
storeInCacheAlways(cfg, t, c, cacheKey, data) ==
    MapSet(c, cacheKey, [data |-> data, timestamp |-> t])

\* storeInCache of both clients: the cache after the store
storeInCache(cfg, t, c, cacheKey, data) ==
    IF ~cfg.cache THEN c
    ELSE MapSet(c, cacheKey, [data |-> data, timestamp |-> t])

\* storeInCache of both clients: the number of cleanupCache timers it sets,
\* given the cache after the store
Scheduled(cfg, c) ==
    IF cfg.cache /\ Cardinality(DOMAIN c) > MaxEntries THEN 1 ELSE 0

\* a cleanupCache that deletes the entries that have reached cacheMaxAge
cleanupCacheAtMaxAge(cfg, t, c) ==
    Restrict(c, {key \in DOMAIN c : ~(t - c[key].timestamp >= cfg.cacheMaxAge)})

\* cleanupCache of both clients: the cache after the sweep
cleanupCache(cfg, t, c) ==
    Restrict(c, {key \in DOMAIN c : ~(t - c[key].timestamp > cfg.cacheMaxAge)})

\* a recordSuccess that leaves averageLatency as it was
recordSuccessKeepsAverage(cfg, t, m, start) ==
    IF ~cfg.metrics THEN m
    ELSE [m EXCEPT !.requestCount = @ + 1,
                   !.totalLatency = @ + (t - start)]

\* HttpClient.recordSuccess
recordSuccess(cfg, t, m, start) ==
    IF ~cfg.metrics THEN m
    ELSE [m EXCEPT !.requestCount = @ + 1,
                   !.totalLatency = @ + (t - start),
                   !.averageLatency = Quotient(m.totalLatency + (t - start),
                                               m.requestCount + 1)]

\* HttpClient.recordError
recordError(cfg, t, m, start) ==
    IF ~cfg.metrics THEN m
    ELSE [recordSuccess(cfg, t, m, start) EXCEPT !.errorCount = @ + 1]

\* AdvancedHttpClient.recordMetrics(start, error)
recordMetrics(t, m, start, error) ==
    [m EXCEPT !.requestCount = @ + 1,
              !.totalLatency = @ + (t - start),
              !.averageLatency = Quotient(m.totalLatency + (t - start),
                                          m.requestCount + 1),
              !.errorCount = IF error # NoError THEN @ + 1 ELSE @]

HttpMessage(statusCode) ==
    <<"HTTP ", ToString(statusCode), ": ",
      IF statusCode = 404 THEN "Not Found" ELSE "Request Failed">>

\* the catch block of HttpClient.get: what is thrown to the caller
CatchGet(error) ==
    IF error.cls \in {"SatsnetApiError", "Error"}
    THEN IF error.name = "AbortError"
         THEN SatsnetApiError(<<"Request timeout">>, 408, "url")
         ELSE IF \E statusCode \in error.status : statusCode >= 400 /\ statusCode < 500
         THEN LET statusCode == CHOOSE x \in error.status : TRUE
              IN  SatsnetApiError(HttpMessage(statusCode), statusCode, "url,status")
         ELSE error
    ELSE error

\* the catch block of HttpClient.post
CatchPost(error) ==
    IF error.cls \in {"SatsnetApiError", "Error"}
    THEN IF error.name = "AbortError"
         THEN SatsnetApiError(<<"Request timeout">>, 408, "url")
         ELSE IF error.status # {}
         THEN LET statusCode == CHOOSE x \in error.status : TRUE
              IN  SatsnetApiError(HttpMessage(statusCode), statusCode, "url,status")
         ELSE error
    ELSE error

\* AdvancedHttpClient.validateResponse: the error thrown, NoError if none
validateResponse(response) ==
    IF response.statusCode >= 400
    THEN SatsnetApiError(HttpMessage(response.statusCode), response.statusCode, "url,status")
    ELSE NoError

\* AdvancedHttpClient.tryNativeJsonParse: response.body.json() reads the
\* body stream to its end and parses what it read; `left` tells whether
\* anything is left to read on response.body afterwards
tryNativeJsonParse(response) ==
    [success |-> response.nativeOk, data |-> response.body, left |-> FALSE]

\* AdvancedHttpClient.shouldTryManualDecompression
shouldTryManualDecompression(encoding) == encoding \in {"gzip", "deflate"}

\* AdvancedHttpClient.tryManualDecompression: what is left on response.body
\* is piped through gunzip/inflate and the text that comes out is parsed; a
\* stream that was read to its end delivers no bytes, and no bytes are
\* neither a compressed stream nor a JSON text
tryManualDecompression(response, left) ==
    [success |-> left /\ response.manualOk, data |-> response.body]

\* AdvancedHttpClient.safeParseJson: native decode, then manual decompression
\* of the same response.body for gzip/deflate, then the decode error
safeParseJson(response) ==
    LET result == tryNativeJsonParse(response)
        manualResult == tryManualDecompression(response, result.left)
    IN  IF result.success THEN Resolve(result.data)
        ELSE IF shouldTryManualDecompression(response.encoding) /\ manualResult.success
        THEN Resolve(manualResult.data)
        ELSE Reject(SatsnetApiError(<<"Invalid JSON response: ", "decode">>, 500,
                                    "diagnostics"))

\* the part of AdvancedHttpClient.executeRequest after the response arrived:
\* how it ends and the cache it leaves
executeRequest(cfg, t, c, cacheKey, response) ==
    IF validateResponse(response) # NoError
    THEN [out |-> Reject(validateResponse(response)), cache |-> c, stored |-> FALSE]
    ELSE LET data == safeParseJson(response)
         IN  IF ~data.ok THEN [out |-> data, cache |-> c, stored |-> FALSE]
             ELSE [out |-> advProcessResponse(data.val),
                   cache |-> IF response.statusCode = 200
                             THEN storeInCache(cfg, t, c, cacheKey, data.val)
                             ELSE c,
                   stored |-> response.statusCode = 200 /\ cfg.cache]

\* the part of AdvancedHttpClient.executePostRequest after the response arrived
executePostRequest(response) ==
    IF validateResponse(response) # NoError
    THEN Reject(validateResponse(response))
    ELSE LET data == safeParseJson(response)
         IN  IF ~data.ok THEN data ELSE advProcessResponse(data.val)

\* a call slot of a caller that has no call in progress
Transport(kind, statusCode, encoding, nativeOk, manualOk, body, err) ==
    [kind |-> kind, statusCode |-> statusCode, encoding |-> encoding,
     nativeOk |-> nativeOk, manualOk |-> manualOk, body |-> body, err |-> err]
NoTransport == Transport("none", 0, "-", FALSE, FALSE, Undefined, NoError)
\* the transport delivers a response
Response(statusCode, encoding, nativeOk, manualOk, body) ==
    Transport("response", statusCode, encoding, nativeOk, manualOk, body, NoError)
\* the transport call rejects
TransportError(err) == Transport("error", 0, "-", FALSE, FALSE, Undefined, err)
\* setupDispatcher: the gen-th Pool made for the client, open
\* setupDispatcher: the Pool created from the configuration cfg, the gen-th
\* pool of the client
NewPool(cfg, gen) ==
    [gen |-> gen, state |-> "open",
     connections |-> cfg.connections, keepAlive |-> cfg.keepAlive = TRUE]

IdleCall ==
    [pc |-> "idle", method |-> "-", key |-> <<>>, start |-> 0, attempt |-> 0, max |-> 0,
     out |-> Resolve(Undefined), last |-> NoError, sent |-> 0, lookup |-> "-",
     counted |-> FALSE,
     hit |-> FALSE, from |-> Resolve(Undefined), cause |-> NoTransport,
     facade |-> "-", ret |-> Resolve(Undefined), pool |-> 0]

\* the slots of the calls in progress; a new call takes the lowest slot that
\* holds no call in progress
Callers == {1, 2}

EngineIdleInit ==
    /\ client = "http"
    /\ config = EngineConfig(TRUE, TRUE, 3)
    /\ now = 0
    /\ cache = EmptyMap
    /\ metrics = ZeroMetrics
    /\ calls = [c \in Callers |-> IdleCall]
    /\ fetched = EmptyMap
    /\ ops = 0
    /\ dispatcher = NewPool(config, 0)
    /\ sweeps = [set |-> 0, run |-> 0]

(***************************************************************************)
(* SpecFn: the pure functions applied to drawn inputs, and tryitWithRetry  *)
(* run attempt by attempt against an fn whose outcomes are drawn.          *)
(***************************************************************************)
EnvCodes == {0, 7, 404, 500}
Bodies ==
    {Prim(a) : a \in Atoms}
    \cup {Env(c, h, d, m) : c \in EnvCodes, h \in BOOLEAN, d \in JsonAtoms, m \in {"ok", "bad"}}

\* what HttpClient.get throws when the transport send was aborted by its
\* timeout
HttpTimeout == CatchGet(JsError("AbortError", {}, <<"aborted">>))

\* what an fn handed to a combinator may throw or reject with
FnErrors ==
    {SatsnetApiError(<<"HTTP ", "Not Found">>, 404, "http"),
     HttpTimeout,
     SatsnetApiError(<<"HTTP ", "Request Failed">>, 500, "http"),
     SatsnetApiError(<<"HTTP ", "Request Failed">>, 503, "http"),
     SatsnetApiError(<<"API Error: ", "bad">>, 7, "null"),
     JsError("AbortError", {}, <<"aborted">>),
     JsError("Error", {}, <<"timeout">>),
     JsError("FetchError", {}, <<"fetch">>),
     JsError("SyntaxError", {}, <<"JSON">>),
     JsError("Error", {}, <<"permanent failure">>),
     Thrown("string"),
     Thrown("bare")}

FnValues == {Prim("d1"), Prim("d2"), Null, Undefined, Prim("zero")}

FnOutcomes == {Resolve(v) : v \in FnValues} \cup {Reject(e) : e \in FnErrors}

NotApplied == [fn |-> "none"]
RetryIdle ==
    [pc |-> "idle", max |-> 0, attempt |-> 0, outs |-> <<>>, waits |-> 0,
     last |-> NoError, res |-> Pair(NoError, Null)]

FnIdleInit ==
    /\ applied = NotApplied
    /\ retry = RetryIdle

FnInit ==
    /\ FnIdleInit
    /\ BatchIdleInit
    /\ EngineIdleInit

\* nothing is being applied
FnIdle == applied = NotApplied /\ retry = RetryIdle

ApplyProcessResponse ==
    /\ FnIdle
    /\ \E data \in Bodies :
         applied' = [fn |-> "processResponse", data |-> data,
                       http |-> processResponse(data), adv |-> advProcessResponse(data)]
    /\ retry' = RetryIdle
    /\ UNCHANGED nonFnVars

ApplyBuildUrl ==
    /\ FnIdle
    /\ \E path \in {"ns/name/alice", "bestheight"}, p1 \in ParamMaps, p2 \in ParamMaps :
         /\ WellFormed(p1) /\ WellFormed(p2)
         /\ applied' =
              [fn |-> "buildUrl", path |-> path, p1 |-> p1, p2 |-> p2,
               key1 |-> createCacheKey(buildUrl(DefaultConfig, path, p1)),
               key2 |-> createCacheKey(buildUrl(DefaultConfig, path, p2)),
               adv1 |-> buildUrlWithCacheKey(DefaultConfig, path, p1).cacheKey,
               adv2 |-> buildUrlWithCacheKey(DefaultConfig, path, p2).cacheKey]
    /\ retry' = RetryIdle
    /\ UNCHANGED nonFnVars

ApplyTryit ==
    /\ FnIdle
    /\ \E o \in FnOutcomes : applied' = [fn |-> "tryit", o |-> o, res |-> tryit(o)]
    /\ retry' = RetryIdle
    /\ UNCHANGED nonFnVars

ApplyTryitOrDefault ==
    /\ FnIdle
    /\ \E o \in FnOutcomes, d \in {Prim("d2"), Null} :
         applied' = [fn |-> "tryitOrDefault", o |-> o, d |-> d,
                       res |-> tryitOrDefault(o, d)]
    /\ retry' = RetryIdle
    /\ UNCHANGED nonFnVars

\* tryitWithRetry(fn, maxRetries, delay)(...): lines 64-67
RetryStart ==
    /\ FnIdle
    /\ \E m \in -1..MaxAttempts :
         retry' = [RetryIdle EXCEPT !.pc = "loop", !.max = m, !.attempt = 1]
    /\ applied' = NotApplied
    /\ UNCHANGED nonFnVars

\* one pass of the loop body: fn is called and settles as `o` (lines 68-86)
RetryAttempt ==
    /\ retry.pc = "loop"
    /\ retry.attempt <= retry.max
    /\ \E o \in FnOutcomes :
         LET outs == Append(retry.outs, o)
         IN  IF o.ok
             THEN retry' = [retry EXCEPT !.outs = outs, !.pc = "done",
                                         !.res = Pair(NoError, o.val)]
             ELSE IF WrapThrows(o.err)
             THEN retry' = [retry EXCEPT !.outs = outs, !.pc = "done",
                                         !.res = Rejected(TypeErrorCannotConvert)]
             ELSE LET lastError == wrapError(o.err)
                  IN  IF RetryDecision(lastError, retry.attempt, retry.max) = "break"
                      THEN retry' = [retry EXCEPT !.outs = outs, !.last = lastError,
                                                  !.pc = "done",
                                                  !.res = Pair(lastError, Null)]
                      ELSE retry' = [retry EXCEPT !.outs = outs, !.last = lastError,
                                                  !.pc = "wait"]
    /\ applied' = NotApplied
    /\ UNCHANGED nonFnVars

\* the backoff timer of line 85 fires; attempt++ and the loop test
RetryWake ==
    /\ retry.pc = "wait"
    /\ retry' = [retry EXCEPT !.pc = "loop", !.attempt = @ + 1, !.waits = @ + 1]
    /\ applied' = NotApplied
    /\ UNCHANGED nonFnVars

\* the loop test fails (line 67), return [lastError, null] (line 89)
RetryExit ==
    /\ retry.pc = "loop"
    /\ retry.attempt > retry.max
    /\ retry' = [retry EXCEPT !.pc = "done", !.res = Pair(retry.last, Null)]
    /\ applied' = NotApplied
    /\ UNCHANGED nonFnVars

\* the caller drops the result; the next application starts afresh
FnReset ==
    /\ applied # NotApplied \/ retry.pc = "done"
    /\ applied' = NotApplied
    /\ retry' = RetryIdle
    /\ UNCHANGED nonFnVars

FnNext ==
    \/ ApplyProcessResponse
    \/ ApplyBuildUrl
    \/ ApplyTryit
    \/ ApplyTryitOrDefault
    \/ RetryStart
    \/ RetryAttempt
    \/ RetryWake
    \/ RetryExit
    \/ FnReset

SpecFn == FnInit /\ [][FnNext]_vars

(***************************************************************************)
(* Claims settled under SpecFn.                                            *)
(***************************************************************************)
Last(s) == s[Len(s)]

\* C3: processResponse of both clients maps an envelope with code 0 and a
\* data field to data, with code 0 and no data field to the whole
\* envelope, and with code # 0 to a SatsnetApiError carrying the envelope's
\* code, msg (inside the message) and data.
C3_EnvelopeUnwrap ==
    (applied.fn = "processResponse" /\ applied.data.k = "env") =>
        \A r \in {applied.http, applied.adv} :
            LET data == applied.data
            IN  /\ (data.code = 0 /\ data.has) => r = Resolve(Prim(data.data))
                /\ (data.code = 0 /\ ~data.has) => r = Resolve(data)
                /\ data.code # 0 =>
                      /\ ~r.ok
                      /\ r.err.cls = "SatsnetApiError"
                      /\ r.err.code = {data.code}
                      /\ Includes(r.err.msg, data.msg)
                      /\ r.err.data = data.data

\* the error fn failed with carries a code in 400..499
Fails4xx(o) == ~o.ok /\ \E c \in o.err.code : c >= 400 /\ c <= 499

\* fn failed with a 5xx-coded error, or with an Error that wrapGenericError
\* classifies as a timeout
FailsTransient(o) ==
    /\ ~o.ok
    /\ \/ \E c \in o.err.code : c >= 500 /\ c <= 599
       \/ o.err.cls = "Error" /\ wrapGenericError(o.err).data = "TIMEOUT_ERROR"

\* C4: with maxAttempts >= 1, an fn that always fails with a 4xx-coded
\* error is invoked exactly once, an fn that always fails with a 5xx-coded
\* or timeout-classified error exactly maxAttempts times, and in both
\* cases tryitWithRetry returns (last error, null).
C4_RetryBoundary ==
    (retry.pc = "done" /\ retry.max >= 1) =>
        /\ (\A i \in DOMAIN retry.outs : Fails4xx(retry.outs[i])) =>
              /\ Len(retry.outs) = 1
              /\ retry.res = Pair(wrapError(Last(retry.outs).err), Null)
        /\ (\A i \in DOMAIN retry.outs : FailsTransient(retry.outs[i])) =>
              /\ Len(retry.outs) = retry.max
              /\ retry.res = Pair(wrapError(Last(retry.outs).err), Null)

\* C4's case: three attempts, all failed transiently, both kinds seen
C4_Witness ==
    /\ retry.pc = "done"
    /\ retry.max = 3
    /\ Len(retry.outs) = 3
    /\ \A i \in DOMAIN retry.outs : FailsTransient(retry.outs[i])
    /\ \E i \in DOMAIN retry.outs : retry.outs[i].err.cls = "Error"
    /\ \E i \in DOMAIN retry.outs : retry.outs[i].err.cls = "SatsnetApiError"

\* a side of an (error, value) pair is set when it is not null/undefined
ErrorSet(res) == res.err # NoError
ValueSet(res) == ~Nullish(res.val)

\* C5: tryit(fn)(...) never rejects and returns a pair with exactly one
\* side set: (null, value) when fn succeeds, (SatsnetApiError, null) when fn
\* throws or rejects with anything.
C5_TryitPair ==
    applied.fn = "tryit" =>
        /\ applied.res.st = "fulfilled"
        /\ ErrorSet(applied.res) # ValueSet(applied.res)
        /\ applied.o.ok => applied.res = Pair(NoError, applied.o.val)
        /\ ~applied.o.ok =>
              applied.res.err.cls = "SatsnetApiError" /\ applied.res.val = Null

\* the two mappings hold the same key-value pairs
SamePairs(p1, p2) == Range(p1) = Range(p2)

\* C10: parameter mappings with the same key-value pairs in any insertion
\* order give the same request identity (cache key), in both clients.
C10_IdentityStable ==
    (applied.fn = "buildUrl" /\ SamePairs(applied.p1, applied.p2)) =>
        applied.key1 = applied.key2 /\ applied.adv1 = applied.adv2

(***************************************************************************)
(* SpecBatch: SatsNetClient.batchRequest.                                  *)
(***************************************************************************)
\* what a facade call may resolve to or reject with
CallOutcomes ==
    {Resolve(Prim("d1")), Resolve(Prim("d2")), Resolve(Null),
     Reject(SatsnetApiError(<<"HTTP ", "Not Found">>, 404, "http")),
     Reject(SatsnetApiError(<<"API Error: ", "bad">>, 7, "null")),
     Reject(JsError("FetchError", {500}, <<"fetch">>))}

MethodLists == UNION {[1..n -> Methods] : n \in 0..MaxBatch}

\* lines 356-411: the thunks are built, an unsupported method throws; then
\* tryitAll starts every thunk (line 119 of tryit.ts) before it awaits
BatchStart ==
    /\ batch.pc = "idle"
    /\ \E methods \in MethodLists :
         IF \E i \in DOMAIN methods : methods[i] \notin SupportedMethods
         THEN LET bad == CHOOSE i \in DOMAIN methods :
                            /\ methods[i] \notin SupportedMethods
                            /\ \A j \in 1..(i - 1) : methods[j] \in SupportedMethods
              IN  batch' = [pc |-> "done", methods |-> methods, outs |-> <<>>,
                            res |-> BatchRejected(
                                <<"Unsupported batch method: ", methods[bad]>>, -1, <<>>)]
         ELSE batch' = [pc |-> "flight", methods |-> methods,
                        outs |-> [i \in DOMAIN methods |-> Pending],
                        res |-> BatchResolved(<<>>)]
    /\ UNCHANGED nonBatchVars

\* one call of the batch settles, in any order
CallSettle ==
    /\ batch.pc = "flight"
    /\ \E i \in DOMAIN batch.outs, o \in CallOutcomes :
         /\ batch.outs[i] = Pending
         /\ batch' = [batch EXCEPT !.outs[i] = o]
    /\ UNCHANGED nonBatchVars

\* Promise.allSettled resolves; the rest of tryitAll and of batchRequest runs
BatchFinish ==
    /\ batch.pc = "flight"
    /\ \A i \in DOMAIN batch.outs : batch.outs[i] # Pending
    /\ batch' = [batch EXCEPT !.pc = "done", !.res = batchRequest(batch.outs)]
    /\ UNCHANGED nonBatchVars

BatchReset ==
    /\ batch.pc = "done"
    /\ batch' = BatchIdle
    /\ UNCHANGED nonBatchVars

BatchInit ==
    /\ FnIdleInit
    /\ BatchIdleInit
    /\ EngineIdleInit

BatchNext ==
    \/ BatchStart
    \/ CallSettle
    \/ BatchFinish
    \/ BatchReset

SpecBatch == BatchInit /\ [][BatchNext]_vars

(***************************************************************************)
(* Claims settled under SpecBatch.                                         *)
(***************************************************************************)
\* the batch was dispatched and has settled
BatchSettled == batch.pc = "done" /\ Len(batch.outs) = Len(batch.methods)

Failed(i) == ~batch.outs[i].ok

\* C6: when batchRequest resolves, the result has one element per call and
\* element i is what calls[i] resolved to, whatever the order in which the
\* calls settled and whatever they resolved to (null included).
C6_BatchPositional ==
    (BatchSettled /\ batch.res.st = "resolved") =>
        /\ Len(batch.res.values) = Len(batch.methods)
        /\ \A i \in DOMAIN batch.methods : batch.res.values[i] = batch.outs[i].val

\* C7: when calls of the batch fail, batchRequest rejects with one
\* aggregated SatsnetApiError whose payload lists every failed call,
\* identified by its position in the input list (the payload's entry for
\* position i is call i's error) and by its message.
C7_BatchAggregate ==
    (BatchSettled /\ \E i \in DOMAIN batch.outs : Failed(i)) =>
        /\ batch.res.st = "rejected"
        /\ batch.res.code = {-1}
        /\ \A i \in DOMAIN batch.outs :
             Failed(i) =>
                /\ i \in DOMAIN batch.res.errors
                /\ batch.res.errors[i] = wrapError(batch.outs[i].err)
                /\ \A k \in DOMAIN batch.res.errors[i].msg :
                     Includes(batch.res.msg, batch.res.errors[i].msg[k])

(***************************************************************************)
(* Spec: one client instance.  A call runs from its start to its first     *)
(* await in one step (cache lookup, transport send), and from the arrival  *)
(* of the transport's answer to the next await or to its end in another.   *)
(* A transport send is one call of this.fetch (HttpClient) or of undici's  *)
(* request (AdvancedHttpClient); how it settles is drawn when it settles.  *)
(***************************************************************************)
Requests ==
    {[path |-> "ns/name/alice", params |-> <<Entry("a", "n1"), Entry("b", "n2")>>],
     [path |-> "ns/name/alice", params |-> <<Entry("b", "n2"), Entry("a", "n1")>>]}

\* decoded bodies the server answers with
EngineBodies ==
    {Env(0, TRUE, "d1", "ok"), Env(7, TRUE, "null", "bad"), Prim("zero")}

\* how this.fetch (ofetch) settles: the decoded body of a 2xx response, or a
\* FetchError with the status of a non-2xx response, an abort, a connection
\* failure
HttpOutcomes ==
    {Response(200, "-", TRUE, FALSE, b) : b \in EngineBodies}
    \cup {TransportError(JsError("FetchError", {404}, <<"404 Not Found">>)),
          TransportError(JsError("FetchError", {500}, <<"500 Internal Server Error">>)),
          TransportError(JsError("AbortError", {}, <<"aborted">>)),
          TransportError(JsError("FetchError", {}, <<"fetch">>))}

\* how undici's request settles
AdvOutcomes ==
    {Response(200, "-", TRUE, FALSE, b) : b \in EngineBodies}
    \cup {Response(201, "-", TRUE, FALSE, Env(0, TRUE, "d1", "ok")),
          Response(404, "-", TRUE, FALSE, Null),
          Response(500, "-", TRUE, FALSE, Null),
          Response(200, "-", FALSE, FALSE, Null),
          Response(200, "gzip", FALSE, TRUE, Env(0, TRUE, "d1", "ok")),
          TransportError(JsError("HeadersTimeoutError", {}, <<"timeout">>)),
          TransportError(JsError("Error", {}, <<"network">>))}

\* how undici's request settles for a call sent on pool `gen`: as on any
\* pool, and, when that pool has been asked to close, possibly with the
\* error of a closed client
RequestOutcomes(gen) ==
    IF dispatcher.gen = gen /\ dispatcher.state = "open" THEN AdvOutcomes
    ELSE AdvOutcomes
         \cup {TransportError(JsError("ClientClosedError", {}, <<"The client is closed">>))}

\* a new HttpClient: cache and metrics as the caller's config sets them
EngineInit ==
    /\ FnIdleInit
    /\ BatchIdleInit
    /\ client = "http"
    /\ \E cacheOn \in BOOLEAN, metricsOn \in BOOLEAN :
         /\ cacheOn \/ metricsOn
         /\ config = EngineConfig(cacheOn, metricsOn, 0)
    /\ now = 0
    /\ cache = EmptyMap
    /\ metrics = ZeroMetrics
    /\ calls = [c \in Callers |-> IdleCall]
    /\ fetched = EmptyMap
    /\ ops = 0
    /\ dispatcher = NewPool(config, 0)
    /\ sweeps = [set |-> 0, run |-> 0]

\* a new AdvancedHttpClient: cache and retries as the caller's config sets them
AdvInit ==
    /\ FnIdleInit
    /\ BatchIdleInit
    /\ client = "adv"
    /\ \E cacheOn \in BOOLEAN, retries \in 0..MaxRetries :
         /\ cacheOn \/ retries = MaxRetries
         /\ config = EngineConfig(cacheOn, TRUE, retries)
    /\ now = 0
    /\ cache = EmptyMap
    /\ metrics = ZeroMetrics
    /\ calls = [c \in Callers |-> IdleCall]
    /\ fetched = EmptyMap
    /\ ops = 0
    /\ dispatcher = NewPool(config, 0)
    /\ sweeps = [set |-> 0, run |-> 0]

InProgress(call) == call.pc \in {"flight", "wait"}

(***************************************************************************)
(* satsnet-client.ts: the facade methods that validate their argument.     *)
(* An address is known by its length and by whether it is all whitespace,  *)
(* a txid by its length and by whether all its characters are hex digits.  *)
(***************************************************************************)
Addresses == [len : {0, 19, 20, 100, 101}, blank : BOOLEAN]
Txids == [len : {0, 63, 64, 65}, hex : BOOLEAN]

\* validateAddress without the length test
validateAddressAnyLength(address) ==
    IF address.len = 0 \/ address.blank
    THEN SatsnetApiError(<<"Invalid Bitcoin address: address cannot be empty">>,
                         InvalidAddressCode, "-")
    ELSE NoError

\* validateAddress: the error thrown, NoError if none
validateAddress(address) ==
    IF address.len = 0 \/ address.blank
    THEN SatsnetApiError(<<"Invalid Bitcoin address: address cannot be empty">>,
                         InvalidAddressCode, "-")
    ELSE IF address.len < MinAddressLength \/ address.len > MaxAddressLength
    THEN SatsnetApiError(
             <<"Invalid Bitcoin address: length must be between 20-100 characters">>,
             InvalidAddressCode, "-")
    ELSE NoError

\* validateTxid: the error thrown, NoError if none
validateTxid(txid) ==
    IF txid.len = 0
    THEN SatsnetApiError(<<"Invalid transaction ID: txid cannot be empty">>,
                         InvalidTxidCode, "-")
    ELSE IF ~(txid.hex /\ txid.len = TxidLength)
    THEN SatsnetApiError(
             <<"Invalid transaction ID: must be a 64-character hex string">>,
             InvalidTxidCode, "-")
    ELSE NoError

\* `allutxos/address/${address}` and `btc/rawtx/${txid}` for the arguments
\* that pass validation
UtxoPath(address) ==
    IF address.len = MinAddressLength THEN "allutxos/address/a20"
    ELSE "allutxos/address/a100"
TxPath(txid) == "btc/rawtx/t64"

\* result.hex: reading a property of null or undefined throws a TypeError,
\* a payload object has the property, any other value gives undefined
HexOf(out) ==
    IF Nullish(out.val)
    THEN Reject(JsError("TypeError", {}, <<"Cannot read properties of null">>))
    ELSE IF out.val.k = "prim" /\ out.val.data \in {"d1", "d2"} THEN Resolve(Prim("hex"))
    ELSE Resolve(Undefined)

\* what the caller of the facade method gets from the outcome of
\* httpClient.get
FacadeResult(facade, out) ==
    IF facade = "getTransactionHex" /\ out.ok THEN HexOf(out) ELSE out

\* a call with what its caller gets, once it has ended
Returned(call) ==
    IF call.pc \in {"resolved", "rejected"}
    THEN [call EXCEPT !.ret = FacadeResult(call.facade, call.out)]
    ELSE call

\* (the calls of an AdvancedHttpClient are taken one at a time: a call of
\* it spans several sends and waits)
FreeSlot(c) ==
    /\ ~InProgress(calls[c])
    /\ client = "adv" => c = 1
    /\ \A d \in Callers : d < c => InProgress(calls[d])

\* the call slots once slot c holds call (a call that starts, or the call of
\* slot c after a step of it): the results of the calls that ended before
\* have been taken by their callers
Begin(c, call) ==
    [d \in Callers |-> IF d = c THEN Returned(call)
                        ELSE IF InProgress(calls[d]) THEN calls[d] ELSE IdleCall]

\* how the lookup of a get went: the cache is off, the key had no entry, its
\* entry was too old and was deleted, or its entry was returned
LookupKind(cacheKey, looked) ==
    IF ~config.cache THEN "off"
    ELSE IF cacheKey \notin DOMAIN cache THEN "absent"
    ELSE IF cacheKey \notin DOMAIN looked.cache THEN "expired"
    ELSE "hit"

\* a call that was answered from the cache (lines 232-235 / 247-250)
ServedFromCache(call, looked, key) ==
    [call EXCEPT !.pc = "resolved", !.out = Resolve(looked.data), !.counted = TRUE,
                 !.hit = TRUE, !.from = fetched[key]]

\* HttpClient.get(path, params) up to `await this.fetch(...)`, called by
\* the user (facade "-") or by a facade method: what it does to the client
HttpGetCall(c, path, params, facade) ==
    LET cacheKey == createCacheKey(buildUrl(config, path, params))
        looked == checkCache(config, now, cache, metrics, cacheKey)
        call == [IdleCall EXCEPT !.method = "get", !.key = cacheKey, !.start = now,
                                 !.lookup = LookupKind(cacheKey, looked),
                                 !.facade = facade]
    IN  /\ cache' = looked.cache
        /\ metrics' = looked.metrics
        /\ fetched' = Restrict(fetched, DOMAIN looked.cache)
        /\ calls' = Begin(c,
               IF Truthy(looked.data)
               THEN ServedFromCache(call, looked, cacheKey)
               ELSE [call EXCEPT !.pc = "flight", !.sent = 1,
                                 !.counted = looked.hit])
        /\ ops' = ops + 1
        /\ UNCHANGED <<sweeps, dispatcher, client, config, now>>

HttpGet(c, path, params, facade) ==
    /\ HttpGetCall(c, path, params, facade)
    /\ UNCHANGED nonEngineVars

HttpGetStart(c) ==
    /\ client = "http"
    /\ FreeSlot(c)
    /\ ops < MaxOps
    /\ \E req \in Requests : HttpGet(c, req.path, req.params, "-")

\* a facade method whose validation threw: the async method rejects and
\* nothing else has run
InvalidCall(c, facade, error) ==
    /\ calls' = Begin(c, [IdleCall EXCEPT !.pc = "rejected", !.method = facade,
                                          !.start = now, !.facade = facade,
                                          !.out = Reject(error)])
    /\ ops' = ops + 1
    /\ UNCHANGED <<sweeps, dispatcher, client, config, now, cache, metrics, fetched>>

Invalid(c, facade, error) ==
    /\ InvalidCall(c, facade, error)
    /\ UNCHANGED nonEngineVars

\* SatsNetClient.getUtxos(address) up to its first await
GetUtxosCall(c, address) ==
    IF validateAddress(address) # NoError
    THEN InvalidCall(c, "getUtxos", validateAddress(address))
    ELSE HttpGetCall(c, UtxoPath(address), <<>>, "getUtxos")

GetUtxosOf(c, address) ==
    /\ client = "http"
    /\ FreeSlot(c)
    /\ ops < MaxOps
    /\ GetUtxosCall(c, address)
    /\ UNCHANGED nonEngineVars

GetUtxos(c) == \E address \in Addresses : GetUtxosOf(c, address)

\* SatsNetClient.getTransactionHex(txid) up to its first await
GetTransactionHexCall(c, txid) ==
    IF validateTxid(txid) # NoError
    THEN InvalidCall(c, "getTransactionHex", validateTxid(txid))
    ELSE HttpGetCall(c, TxPath(txid), <<>>, "getTransactionHex")

GetTransactionHexOf(c, txid) ==
    /\ client = "http"
    /\ FreeSlot(c)
    /\ ops < MaxOps
    /\ GetTransactionHexCall(c, txid)
    /\ UNCHANGED nonEngineVars

GetTransactionHex(c) == \E txid \in Txids : GetTransactionHexOf(c, txid)

\* HttpClient.get from the settling of this.fetch to the end (lines 238-271):
\* what it does to the client
HttpGetSettleCall(c) ==
    /\ client = "http"
    /\ calls[c].pc = "flight"
    /\ calls[c].method = "get"
    /\ \E t \in HttpOutcomes :
         LET call == [calls[c] EXCEPT !.cause = t]
         IN  IF t.kind = "response"
             THEN LET recorded == recordSuccess(config, now, metrics, call.start)
                      result == processResponse(t.body)
                  IN  /\ cache' = storeInCache(config, now, cache, call.key, t.body)
                      /\ fetched' = IF config.cache
                                    THEN MapSet(fetched, call.key, result)
                                    ELSE fetched
                      /\ sweeps' = [sweeps EXCEPT !.set = @ + Scheduled(config, cache')]
                      /\ IF result.ok
                         THEN /\ metrics' = recorded
                              /\ calls' = Begin(c,
                                     [call EXCEPT !.pc = "resolved", !.out = result])
                         ELSE /\ metrics' = recordError(config, now, recorded, call.start)
                              /\ calls' = Begin(c,
                                     [call EXCEPT !.pc = "rejected",
                                                  !.out = Reject(CatchGet(result.err))])
             ELSE /\ metrics' = recordError(config, now, metrics, call.start)
                  /\ calls' = Begin(c,
                         [call EXCEPT !.pc = "rejected", !.out = Reject(CatchGet(t.err))])
                  /\ UNCHANGED <<cache, fetched, sweeps>>
    /\ UNCHANGED <<dispatcher, client, config, now, ops>>

HttpGetSettle(c) ==
    /\ HttpGetSettleCall(c)
    /\ UNCHANGED nonEngineVars

\* HttpClient.post up to `await this.fetch(...)`
HttpPostStart(c) ==
    /\ client = "http"
    /\ FreeSlot(c)
    /\ ops < MaxOps
    /\ calls' = Begin(c,
           [IdleCall EXCEPT !.pc = "flight", !.method = "post",
                            !.key = buildUrl(config, "btc/tx", <<>>),
                            !.start = now, !.sent = 1])
    /\ ops' = ops + 1
    /\ UNCHANGED <<sweeps, dispatcher, client, config, now, cache, metrics, fetched>>
    /\ UNCHANGED nonEngineVars

\* HttpClient.post from the settling of this.fetch to the end (lines 282-310)
HttpPostSettle(c) ==
    /\ client = "http"
    /\ calls[c].pc = "flight"
    /\ calls[c].method = "post"
    /\ \E t \in HttpOutcomes :
         LET call == [calls[c] EXCEPT !.cause = t]
         IN  IF t.kind = "response"
             THEN LET recorded == recordSuccess(config, now, metrics, call.start)
                      result == processResponse(t.body)
                  IN  IF result.ok
                      THEN /\ metrics' = recorded
                           /\ calls' = Begin(c,
                                  [call EXCEPT !.pc = "resolved", !.out = result])
                      ELSE /\ metrics' = recordError(config, now, recorded, call.start)
                           /\ calls' = Begin(c,
                                  [call EXCEPT !.pc = "rejected",
                                               !.out = Reject(CatchPost(result.err))])
             ELSE /\ metrics' = recordError(config, now, metrics, call.start)
                  /\ calls' = Begin(c,
                         [call EXCEPT !.pc = "rejected", !.out = Reject(CatchPost(t.err))])
    /\ UNCHANGED <<sweeps, dispatcher, client, config, now, cache, fetched, ops>>
    /\ UNCHANGED nonEngineVars

\* the first pass of tryitWithRetry's loop inside AdvancedHttpClient.get/post:
\* with a limit below 1 the loop body never runs and the call resolves null
\* after recordMetrics; otherwise the first request is sent
FirstAttempt(call) ==
    IF call.max < 1
    THEN [call EXCEPT !.pc = "resolved", !.out = Resolve(Null)]
    ELSE [call EXCEPT !.pc = "flight", !.attempt = 1, !.sent = 1,
                      !.pool = dispatcher.gen]

\* AdvancedHttpClient.get up to its first await
AdvGetStart(c) ==
    /\ client = "adv"
    /\ FreeSlot(c)
    /\ ops < MaxOps
    /\ \E req \in Requests :
         LET cacheKey == buildUrlWithCacheKey(config, req.path, req.params).cacheKey
             looked == advCheckCache(config, now, cache, metrics, cacheKey)
             call == [IdleCall EXCEPT !.method = "get", !.key = cacheKey, !.start = now,
                                      !.max = config.retries,
                                      !.lookup = LookupKind(cacheKey, looked)]
             first == [FirstAttempt(call) EXCEPT !.counted = looked.hit]
         IN  /\ cache' = looked.cache
             /\ fetched' = Restrict(fetched, DOMAIN looked.cache)
             /\ IF Truthy(looked.data)
                THEN /\ calls' = Begin(c, ServedFromCache(call, looked, cacheKey))
                     /\ metrics' = looked.metrics
                ELSE /\ calls' = Begin(c, first)
                     /\ metrics' = IF first.pc = "resolved"
                                   THEN recordMetrics(now, looked.metrics, now, NoError)
                                   ELSE looked.metrics
    /\ ops' = ops + 1
    /\ UNCHANGED <<sweeps, dispatcher, client, config, now>>
    /\ UNCHANGED nonEngineVars

\* the catch block of tryitWithRetry and what AdvancedHttpClient.get/post do
\* once tryitWithRetry has returned
AfterAttempt(call, out) ==
    IF out.ok
    THEN [call |-> [call EXCEPT !.pc = "resolved", !.out = out],
          metrics |-> recordMetrics(now, metrics, call.start, NoError)]
    ELSE LET lastError == wrapError(out.err)
         IN  IF RetryDecision(lastError, call.attempt, call.max) = "break"
             THEN [call |-> [call EXCEPT !.pc = "rejected", !.out = Reject(lastError),
                                         !.last = lastError],
                   metrics |-> recordMetrics(now, metrics, call.start, lastError)]
             ELSE [call |-> [call EXCEPT !.pc = "wait", !.last = lastError],
                   metrics |-> metrics]

\* one attempt of AdvancedHttpClient.get settles: executeRequest from the
\* arrival of the response on
AdvGetSettle(c) ==
    /\ client = "adv"
    /\ calls[c].pc = "flight"
    /\ calls[c].method = "get"
    /\ \E t \in RequestOutcomes(calls[c].pool) :
         LET call == [calls[c] EXCEPT !.cause = t]
             ex == IF t.kind = "response"
                   THEN executeRequest(config, now, cache, call.key, t)
                   ELSE [out |-> Reject(t.err), cache |-> cache, stored |-> FALSE]
             after == AfterAttempt(call, ex.out)
         IN  /\ cache' = ex.cache
             /\ fetched' = IF ex.stored THEN MapSet(fetched, call.key, ex.out) ELSE fetched
             /\ sweeps' = IF ex.stored
                          THEN [sweeps EXCEPT !.set = @ + Scheduled(config, ex.cache)]
                          ELSE sweeps
             /\ calls' = Begin(c, after.call)
             /\ metrics' = after.metrics
    /\ UNCHANGED <<dispatcher, client, config, now, ops>>
    /\ UNCHANGED nonEngineVars

\* AdvancedHttpClient.post up to its first await
AdvPostStart(c) ==
    /\ client = "adv"
    /\ FreeSlot(c)
    /\ ops < MaxOps
    /\ LET call == [IdleCall EXCEPT !.method = "post", !.start = now,
                        !.key = buildUrlWithCacheKey(config, "btc/tx", <<>>).cacheKey,
                        !.max = config.retries]
           first == FirstAttempt(call)
       IN  /\ calls' = Begin(c, first)
           /\ metrics' = IF first.pc = "resolved"
                         THEN recordMetrics(now, metrics, now, NoError)
                         ELSE metrics
    /\ ops' = ops + 1
    /\ UNCHANGED <<sweeps, dispatcher, client, config, now, cache, fetched>>
    /\ UNCHANGED nonEngineVars

\* one attempt of AdvancedHttpClient.post settles
AdvPostSettle(c) ==
    /\ client = "adv"
    /\ calls[c].pc = "flight"
    /\ calls[c].method = "post"
    /\ \E t \in RequestOutcomes(calls[c].pool) :
         LET call == [calls[c] EXCEPT !.cause = t]
             out == IF t.kind = "response" THEN executePostRequest(t) ELSE Reject(t.err)
             after == AfterAttempt(call, out)
         IN  /\ calls' = Begin(c, after.call)
             /\ metrics' = after.metrics
    /\ UNCHANGED <<sweeps, dispatcher, client, config, now, cache, fetched, ops>>
    /\ UNCHANGED nonEngineVars

\* the backoff timer of tryitWithRetry fires: the next pass of the loop sends
\* the request again
AdvRetry(c) ==
    /\ client = "adv"
    /\ calls[c].pc = "wait"
    /\ calls' = [calls EXCEPT ![c] =
           [@ EXCEPT !.pc = "flight", !.attempt = @ + 1, !.sent = @ + 1,
                     !.pool = dispatcher.gen]]
    /\ UNCHANGED <<sweeps, dispatcher, client, config, now, cache, metrics, fetched, ops>>
    /\ UNCHANGED nonEngineVars

\* Date.now() advances
Tick ==
    /\ now < MaxTime
    /\ cache # EmptyMap \/ \E c \in Callers : InProgress(calls[c])
    /\ now' = now + 1
    /\ UNCHANGED <<sweeps, dispatcher, client, config, cache, metrics, calls, fetched, ops>>
    /\ UNCHANGED nonEngineVars

\* a cleanupCache timer fires (both clients)
Sweep ==
    /\ sweeps.run < sweeps.set
    /\ sweeps' = [sweeps EXCEPT !.run = @ + 1]
    /\ cache' = cleanupCache(config, now, cache)
    /\ fetched' = Restrict(fetched, DOMAIN cache')
    /\ UNCHANGED <<dispatcher, client, config, now, metrics, calls, ops>>
    /\ UNCHANGED nonEngineVars

\* a clearCache that resets every metric
ClearCacheResetsAll ==
    /\ cache' = EmptyMap
    /\ fetched' = EmptyMap
    /\ metrics' = ZeroMetrics
    /\ UNCHANGED <<sweeps, dispatcher, client, config, now, calls, ops>>
    /\ UNCHANGED nonEngineVars

\* clearCache of both clients
ClearCache ==
    /\ cache' = EmptyMap
    /\ fetched' = EmptyMap
    /\ metrics' = [metrics EXCEPT !.cacheHits = 0, !.cacheMisses = 0]
    /\ UNCHANGED <<sweeps, dispatcher, client, config, now, calls, ops>>
    /\ UNCHANGED nonEngineVars

\* the partial configurations handed to updateConfig: one setting each
NewConfigs ==
    {<<"cache", b>> : b \in BOOLEAN} \cup {<<"metrics", b>> : b \in BOOLEAN}

AdvNewConfigs ==
    {<<"cache", b>> : b \in BOOLEAN} \cup {<<"keepAlive", FALSE>>}

\* a merge that drops the network setting
MergeConfigKeepsNetwork(cfg, newConfig) ==
    CASE newConfig[1] = "cache" -> [cfg EXCEPT !.cache = newConfig[2]]
      [] newConfig[1] = "metrics" -> [cfg EXCEPT !.metrics = newConfig[2]]
      [] newConfig[1] = "baseUrl" -> [cfg EXCEPT !.baseUrl = newConfig[2]]
      [] OTHER -> cfg

\* { ...this.config, ...newConfig }
MergeConfig(cfg, newConfig) ==
    CASE newConfig[1] = "cache" -> [cfg EXCEPT !.cache = newConfig[2]]
      [] newConfig[1] = "metrics" -> [cfg EXCEPT !.metrics = newConfig[2]]
      [] newConfig[1] = "network" -> [cfg EXCEPT !.network = newConfig[2]]
      [] newConfig[1] = "baseUrl" -> [cfg EXCEPT !.baseUrl = newConfig[2]]
      [] newConfig[1] = "connections" -> [cfg EXCEPT !.connections = newConfig[2]]
      [] newConfig[1] = "keepAlive" -> [cfg EXCEPT !.keepAlive = newConfig[2]]
      [] OTHER -> cfg

\* the networks and base URLs handed to setNetwork and setBaseUrl
Networks == {"mainnet", "testnet"}
BaseUrls == {DefaultConfig.baseUrl, "https://apiprd.ordx.market/btc/testnet"}

\* SatsNetClient.setNetwork(network): HttpClient.updateConfig({ network })
\* (the facade's own copy of the configuration is never read again); setting
\* the network already in force changes nothing and is a stuttering step
SetNetworkTo(network) ==
    /\ client = "http"
    /\ ops < MaxOps
    /\ network # config.network
    /\ config' = MergeConfig(config, <<"network", network>>)
    /\ ops' = ops + 1
    /\ UNCHANGED <<sweeps, dispatcher, client, now, cache, metrics, calls, fetched>>
    /\ UNCHANGED nonEngineVars

SetNetwork == \E network \in Networks : SetNetworkTo(network)

\* SatsNetClient.setBaseUrl(baseUrl): HttpClient.updateConfig({ baseUrl });
\* setting the base URL already in force is a stuttering step
SetBaseUrlTo(baseUrl) ==
    /\ client = "http"
    /\ ops < MaxOps
    /\ baseUrl # config.baseUrl
    /\ config' = MergeConfig(config, <<"baseUrl", baseUrl>>)
    /\ ops' = ops + 1
    /\ UNCHANGED <<sweeps, dispatcher, client, now, cache, metrics, calls, fetched>>
    /\ UNCHANGED nonEngineVars

SetBaseUrl == \E baseUrl \in BaseUrls : SetBaseUrlTo(baseUrl)

\* HttpClient.updateConfig with a setting that differs from the current one
\* (the ofetch instance it recreates carries no state of the model)
UpdateConfig ==
    /\ client = "http"
    /\ ops < MaxOps
    /\ \E newConfig \in NewConfigs :
         /\ MergeConfig(config, newConfig) # config
         /\ config' = MergeConfig(config, newConfig)
    /\ ops' = ops + 1
    /\ UNCHANGED <<sweeps, dispatcher, client, now, cache, metrics, calls, fetched>>
    /\ UNCHANGED nonEngineVars

\* AdvancedHttpClient.updateConfig with a newConfig for which
\* `newConfig.connections || newConfig.keepAlive` is falsy: the
\* configuration is merged, the pool stays
AdvUpdateConfig ==
    /\ client = "adv"
    /\ ops < MaxOps
    /\ \E newConfig \in AdvNewConfigs :
         /\ MergeConfig(config, newConfig) # config
         /\ config' = MergeConfig(config, newConfig)
    /\ ops' = ops + 1
    /\ UNCHANGED <<sweeps, dispatcher, client, now, cache, metrics, calls, fetched>>
    /\ UNCHANGED nonEngineVars

\* the partial configurations that make updateConfig recreate the pool
PoolConfigs == {<<"connections", 10>>, <<"keepAlive", TRUE>>}

\* an updateConfig that installs the new pool without closing the old one
AdvTeardownStartInstallsAtOnce ==
    /\ client = "adv"
    /\ ops < MaxOps
    /\ dispatcher.state = "open"
    /\ \E newConfig \in PoolConfigs : config' = MergeConfig(config, newConfig)
    /\ dispatcher' = NewPool(config', dispatcher.gen + 1)
    /\ ops' = ops + 1
    /\ UNCHANGED <<sweeps, client, now, cache, metrics, calls, fetched>>
    /\ UNCHANGED nonEngineVars

\* AdvancedHttpClient.updateConfig with connections or keepAlive set, up to
\* `await this.dispatcher.close()` inside close(): the pool is asked to close
AdvTeardownStart ==
    /\ client = "adv"
    /\ ops < MaxOps
    /\ dispatcher.state = "open"
    /\ \E newConfig \in PoolConfigs : config' = MergeConfig(config, newConfig)
    /\ dispatcher' = [dispatcher EXCEPT !.state = "closing"]
    /\ ops' = ops + 1
    /\ UNCHANGED <<sweeps, client, now, cache, metrics, calls, fetched>>
    /\ UNCHANGED nonEngineVars

\* dispatcher.close() has resolved: close() clears the cache and
\* updateConfig goes on to setupDispatcher, which installs a new Pool
AdvTeardownFinish ==
    /\ client = "adv"
    /\ dispatcher.state = "closing"
    /\ cache' = EmptyMap
    /\ fetched' = EmptyMap
    /\ dispatcher' = NewPool(config, dispatcher.gen + 1)
    /\ UNCHANGED <<sweeps, client, config, now, metrics, calls, ops>>
    /\ UNCHANGED nonEngineVars

\* a close that resets the cache counters the way clearCache does
CloseResetsCounters ==
    /\ client = "http"
    /\ cache' = EmptyMap
    /\ fetched' = EmptyMap
    /\ metrics' = [metrics EXCEPT !.cacheHits = 0, !.cacheMisses = 0]
    /\ UNCHANGED <<sweeps, dispatcher, client, config, now, calls, ops>>
    /\ UNCHANGED nonEngineVars

\* HttpClient.close
Close ==
    /\ client = "http"
    /\ cache' = EmptyMap
    /\ fetched' = EmptyMap
    /\ UNCHANGED <<sweeps, dispatcher, client, config, now, metrics, calls, ops>>
    /\ UNCHANGED nonEngineVars

Next ==
    \/ \E c \in Callers : HttpGetStart(c)
    \/ \E c \in Callers : HttpGetSettle(c)
    \/ \E c \in Callers : HttpPostStart(c)
    \/ \E c \in Callers : HttpPostSettle(c)
    \/ Tick
    \/ ClearCache
    \/ UpdateConfig
    \/ Close
    \/ \E c \in Callers : GetUtxos(c)
    \/ \E c \in Callers : GetTransactionHex(c)
    \/ SetNetwork
    \/ SetBaseUrl
    \/ Sweep

\* HttpClient
Spec == EngineInit /\ [][Next]_vars

(***************************************************************************)
(* SpecBatchEngine: SatsNetClient.batchRequest whose calls are the facade  *)
(* methods of a SatsNetClient over its HttpClient.  The thunks are invoked *)
(* one after the other by fns.map (line 119 of tryit.ts), synchronously:   *)
(* nothing else of the program runs until the last one has been invoked.   *)
(***************************************************************************)
\* the requests of a batch: a getUtxos with a good and with a bad address, a
\* getTransactionHex, and a method batchRequest does not know
BatchRequests ==
    {[method |-> "getUtxos", params |-> [len |-> MinAddressLength, blank |-> FALSE]],
     [method |-> "getUtxos", params |-> [len |-> MinAddressLength - 1, blank |-> FALSE]],
     [method |-> "getTransactionHex", params |-> [len |-> TxidLength, hex |-> TRUE]],
     [method |-> "bogus", params |-> [len |-> 0, blank |-> TRUE]]}

EngineMethods == {"getUtxos", "getTransactionHex"}

\* a batch has at most as many calls as the model has call slots
RequestLists == UNION {[1..n -> BatchRequests] : n \in 1..Cardinality(Callers)}

\* a batchRequest that looks at the method of a request only when its turn
\* to be dispatched comes
BatchBeginChecksLate ==
    /\ client = "http"
    /\ batch.pc = "idle"
    /\ \E requests \in RequestLists :
         /\ ops + Len(requests) <= MaxOps
         /\ LET methods == [i \in DOMAIN requests |-> requests[i].method]
                started == [pc |-> "dispatch", methods |-> methods,
                            outs |-> [i \in DOMAIN requests |-> Pending],
                            res |-> BatchResolved(<<>>),
                            params |-> [i \in DOMAIN requests |-> requests[i].params],
                            slots |-> [i \in DOMAIN requests |-> 0], next |-> 1]
            IN  IF methods[1] \notin EngineMethods
                THEN batch' = [started EXCEPT
                                 !.pc = "done", !.outs = <<>>,
                                 !.res = BatchRejected(
                                    <<"Unsupported batch method: ", methods[1]>>,
                                    -1, <<>>)]
                ELSE batch' = started
    /\ UNCHANGED nonBatchVars

\* lines 356-411: requests.map builds the thunks; an unsupported method
\* throws out of the map callback and batchRequest rejects
BatchBegin ==
    /\ client = "http"
    /\ batch.pc = "idle"
    /\ \E requests \in RequestLists :
         /\ ops + Len(requests) <= MaxOps
         /\ LET methods == [i \in DOMAIN requests |-> requests[i].method]
                started == [pc |-> "dispatch", methods |-> methods,
                            outs |-> [i \in DOMAIN requests |-> Pending],
                            res |-> BatchResolved(<<>>),
                            params |-> [i \in DOMAIN requests |-> requests[i].params],
                            slots |-> [i \in DOMAIN requests |-> 0], next |-> 1]
            IN  IF \E i \in DOMAIN methods : methods[i] \notin EngineMethods
                THEN LET bad == CHOOSE i \in DOMAIN methods :
                                   /\ methods[i] \notin EngineMethods
                                   /\ \A j \in 1..(i - 1) : methods[j] \in EngineMethods
                     IN  batch' = [started EXCEPT
                                     !.pc = "done", !.outs = <<>>,
                                     !.res = BatchRejected(
                                        <<"Unsupported batch method: ", methods[bad]>>,
                                        -1, <<>>)]
                ELSE batch' = started
    /\ UNCHANGED nonBatchVars

\* the thunk of a request: the facade method up to its first await
Thunk(c, method, params) ==
    IF method = "getUtxos" THEN GetUtxosCall(c, params)
    ELSE GetTransactionHexCall(c, params)

\* a dispatch that gives up the rest of the batch once a call has failed
BatchDispatchStopsAtFailure ==
    /\ batch.pc = "dispatch"
    /\ LET i == batch.next
       IN  \E c \in Callers :
             /\ FreeSlot(c)
             /\ Thunk(c, batch.methods[i], batch.params[i])
             /\ batch' = [batch EXCEPT
                   !.next = i + 1,
                   !.slots[i] = c,
                   !.outs = [j \in DOMAIN batch.outs |->
                               IF j = i /\ ~InProgress(calls'[c]) THEN calls'[c].ret
                               ELSE IF j > i /\ calls'[c].pc = "rejected"
                               THEN calls'[c].ret
                               ELSE batch.outs[j]],
                   !.pc = IF i = Len(batch.methods) \/ calls'[c].pc = "rejected"
                          THEN "flight" ELSE "dispatch"]
    /\ UNCHANGED fnVars

\* tryit(fn)() for the next thunk of fns.map (line 119 of tryit.ts): the
\* facade method runs up to its first await; a call that ends there (bad
\* argument, cache hit) has its outcome at once
BatchDispatch ==
    /\ batch.pc = "dispatch"
    /\ LET i == batch.next
       IN  \E c \in Callers :
             /\ FreeSlot(c)
             /\ Thunk(c, batch.methods[i], batch.params[i])
             /\ batch' = [batch EXCEPT
                   !.next = i + 1,
                   !.slots[i] = c,
                   !.outs[i] = IF InProgress(calls'[c]) THEN Pending ELSE calls'[c].ret,
                   !.pc = IF i = Len(batch.methods) THEN "flight" ELSE "dispatch"]
    /\ UNCHANGED fnVars

\* the request of one call of the batch settles, in any order
BatchCallSettle(c) ==
    /\ batch.pc = "flight"
    /\ HttpGetSettleCall(c)
    /\ LET i == CHOOSE i \in DOMAIN batch.slots :
                    batch.slots[i] = c /\ batch.outs[i] = Pending
       IN  batch' = [batch EXCEPT !.outs[i] = calls'[c].ret]
    /\ UNCHANGED fnVars

\* a cleanupCache timer fires: never between two thunks of fns.map
BatchSweep ==
    /\ batch.pc # "dispatch"
    /\ Sweep

BatchEngineNext ==
    \/ BatchBegin
    \/ BatchDispatch
    \/ \E c \in Callers : BatchCallSettle(c)
    \/ BatchFinish
    \/ BatchReset
    \/ Tick
    \/ BatchSweep

SpecBatchEngine == EngineInit /\ [][BatchEngineNext]_vars

AdvNext ==
    \/ \E c \in Callers : AdvGetStart(c)
    \/ \E c \in Callers : AdvGetSettle(c)
    \/ \E c \in Callers : AdvPostStart(c)
    \/ \E c \in Callers : AdvPostSettle(c)
    \/ \E c \in Callers : AdvRetry(c)
    \/ Tick
    \/ ClearCache
    \/ AdvUpdateConfig
    \/ AdvTeardownStart
    \/ AdvTeardownFinish
    \/ Sweep

\* AdvancedHttpClient
SpecAdv == AdvInit /\ [][AdvNext]_vars

\* AdvancedHttpClient with what its timers guarantee: a request that was sent
\* settles (bodyTimeout and headersTimeout are set on every request), the
\* backoff timer of a waiting call fires, and the close() of the pool resolves
SpecAdvLive ==
    /\ SpecAdv
    /\ \A c \in Callers : WF_vars(AdvGetSettle(c))
    /\ \A c \in Callers : WF_vars(AdvPostSettle(c))
    /\ \A c \in Callers : WF_vars(AdvRetry(c))
    /\ WF_vars(AdvTeardownFinish)

(***************************************************************************)
(* Claims about the clients                                                *)
(***************************************************************************)
\* the step in which a get takes slot c (updateConfig counts as an operation
\* too, and changes the configuration)
GetStarts(c) ==
    /\ FreeSlot(c)
    /\ ops' = ops + 1
    /\ config' = config
    /\ calls'[c].method = "get"

\* the cache holds, under cacheKey, the response of a get that resolved, not
\* older than cacheMaxAge
LiveSuccess(cacheKey) ==
    /\ cacheKey \in DOMAIN cache
    /\ fetched[cacheKey].ok
    /\ now - cache[cacheKey].timestamp <= config.cacheMaxAge

\* C1: with caching enabled on HttpClient, a get made within cacheMaxAge of a
\* get of the same path and params that resolved sends nothing, adds exactly
\* 1 to cacheHits and leaves every other metric (requestCount, errorCount,
\* totalLatency, ...) as it was.
C1_SecondGetFromCache ==
    [][\A c \in Callers :
          (client = "http" /\ config.cache /\ GetStarts(c) /\ LiveSuccess(calls'[c].key))
          => /\ calls'[c].pc = "resolved"
             /\ calls'[c].sent = 0
             /\ metrics' = [metrics EXCEPT !.cacheHits = @ + 1]]_vars

\* C2: what the cache holds for a response envelope {code: 0, data: D} is
\* the unwrapped payload the fetching get returned, and a get served from
\* the cache returns that same value, never the raw envelope.
C2_CacheHoldsPayload ==
    /\ \A cacheKey \in DOMAIN cache :
         (cache[cacheKey].data.k = "env" /\ cache[cacheKey].data.code = 0)
         => cache[cacheKey].data = fetched[cacheKey].val
    /\ \A c \in Callers :
         (calls[c].pc = "resolved" /\ calls[c].hit /\ calls[c].from.ok)
         => calls[c].out = calls[c].from

\* C8: every rejection of HttpClient.get and HttpClient.post is a
\* SatsnetApiError, and when the transport failed with an HTTP status
\* s >= 400 the error's code is s.
C8_RejectsApiError ==
    \A c \in Callers :
        (client = "http" /\ calls[c].pc = "rejected")
        => /\ calls[c].out.err.cls = "SatsnetApiError"
           /\ \A s \in calls[c].cause.err.status : s >= 400 => calls[c].out.err.code = {s}

\* the last attempt of the call ended with a response of status below 400
\* carrying an envelope with code # 0
EnvelopeError(call) ==
    /\ call.cause.kind = "response"
    /\ call.cause.statusCode < 400
    /\ safeParseJson(call.cause).ok
    /\ call.cause.body.k = "env"
    /\ call.cause.body.code # 0

\* the last attempt of the call ended with a transport failure, a timeout
\* or a 5xx status
Transient(call) ==
    \/ call.cause.kind = "error"
    \/ call.cause.kind = "response" /\ call.cause.statusCode >= 500

\* C9: in AdvancedHttpClient.get and post an envelope with code # 0 on a
\* response of status below 400 ends the call at once (no wait, no further
\* send: one send when it answers the first attempt), while a call that
\* rejects after a transport, timeout or 5xx failure has used every attempt.
C9_EnvelopeNotRetried ==
    \A c \in Callers :
        /\ EnvelopeError(calls[c])
           => /\ calls[c].pc = "rejected"
              /\ calls[c].sent = calls[c].attempt
        /\ (calls[c].pc = "rejected" /\ Transient(calls[c]))
           => calls[c].sent = calls[c].max

\* the step in which the get of slot c, in flight, resolves
GetResolves(c) ==
    /\ calls[c].pc = "flight"
    /\ calls[c].method = "get"
    /\ calls'[c].pc = "resolved"

C12_CountedHitIsServed ==
    \A c \in Callers :
        calls[c].counted
        => /\ calls[c].hit
           /\ calls[c].pc = "resolved"
           /\ calls[c].sent = 0

\* the step in which the get of slot c, in flight, receives a response whose
\* body is an envelope with code # 0
GetReceivesEnvelopeError(c) ==
    /\ calls[c].pc = "flight"
    /\ calls[c].method = "get"
    /\ calls'[c].pc \in {"resolved", "rejected", "wait"}
    /\ EnvelopeError(calls'[c])

\* a value that is an envelope with code # 0
FailedEnvelope(v) == v.k = "env" /\ v.code # 0

\* C13: a get that receives an envelope with code # 0 rejects with the
\* envelope's error and leaves the cache as it was, and no get ever resolves
\* with such an envelope as its value.
C13_EnvelopeErrorNotCached ==
    [][\A c \in Callers :
          /\ GetReceivesEnvelopeError(c)
             => /\ calls'[c].pc = "rejected"
                /\ calls'[c].out.err =
                       SatsnetApiError(<<"API Error: ", calls'[c].cause.body.msg>>,
                                       calls'[c].cause.body.code,
                                       calls'[c].cause.body.data)
                /\ cache' = cache
          /\ calls'[c].pc = "resolved" => ~FailedEnvelope(calls'[c].out.val)]_vars

Settles(c) ==
    /\ InProgress(calls[c])
    /\ calls'[c].pc \in {"resolved", "rejected"}

\* C15: with metrics on, a get or post that was not served from the cache
\* adds exactly 1 to requestCount when it settles, however it ends, and
\* adds 1 to errorCount exactly when it rejects; a step of the call that
\* does not settle it changes neither.
C15_OneRequestPerCall ==
    [][\A c \in Callers :
          /\ (config.metrics /\ Settles(c))
             => /\ metrics'.requestCount = metrics.requestCount + 1
                /\ metrics'.errorCount =
                       metrics.errorCount + (IF calls'[c].pc = "rejected" THEN 1 ELSE 0)
          /\ (InProgress(calls[c]) /\ InProgress(calls'[c]))
             => /\ metrics'.requestCount = metrics.requestCount
                /\ metrics'.errorCount = metrics.errorCount]_vars

(***************************************************************************)
(* Claims about tryitAll, on the calls of a batch                          *)
(***************************************************************************)
\* every operation tryitAll started has settled
AllSettled ==
    /\ batch.pc \in {"flight", "done"}
    /\ Len(batch.outs) = Len(batch.methods)
    /\ \A i \in DOMAIN batch.outs : batch.outs[i] # Pending

\* the operations that resolved / rejected, in the order they were declared
Succeeded(outs) == SelectSeq(outs, LAMBDA o : o.ok)
Rejections(outs) == SelectSeq(outs, LAMBDA o : ~o.ok)

\* C16: tryitAll starts every operation and returns once each has settled,
\* whatever the others did; values holds the results of the operations that
\* succeeded and errors the SatsnetApiErrors of those that failed, each in
\* the order of declaration whatever the order of settling.
C16_TryitAllSplits ==
    /\ batch.pc = "done" /\ Len(batch.outs) = Len(batch.methods) => AllSettled
    /\ AllSettled
       => LET all == tryitAll(batch.outs)
              succeeded == Succeeded(batch.outs)
              rejections == Rejections(batch.outs)
          IN  /\ all.values = [i \in DOMAIN succeeded |-> succeeded[i].val]
              /\ all.errors = [i \in DOMAIN rejections |-> wrapError(rejections[i].err)]
              /\ \A i \in DOMAIN all.errors : all.errors[i].cls = "SatsnetApiError"

\* the call of slot c has rejected at once with a SatsnetApiError of the
\* given code: nothing was sent, cache and metrics are as before
RejectsUnsent(c, code) ==
    /\ calls'[c].pc = "rejected"
    /\ ~calls'[c].ret.ok
    /\ calls'[c].ret.err.cls = "SatsnetApiError"
    /\ calls'[c].ret.err.code = {code}
    /\ calls'[c].sent = 0
    /\ calls'[c].attempt = 0
    /\ cache' = cache
    /\ metrics' = metrics

\* C17: getUtxos with an address that is empty or whose length is outside
\* 20..100, and getTransactionHex with a txid that is not a 64-character hex
\* string, reject at once with a SatsnetApiError (code -1001, respectively
\* -1002), with no transport send and no retry, and leave the cache and
\* every metric as they were.
C17_InvalidArgumentRejected ==
    [][/\ \A c \in Callers : \A address \in Addresses :
            (address.len = 0 \/ address.len < 20 \/ address.len > 100)
            /\ GetUtxosOf(c, address)
            => RejectsUnsent(c, -1001)
       /\ \A c \in Callers : \A txid \in Txids :
            ~(txid.hex /\ txid.len = 64) /\ GetTransactionHexOf(c, txid)
            => RejectsUnsent(c, -1002)]_vars

\* getUtxos has rejected an address of 19 characters on a client that holds
\* a cached response and has counted a request
C17_Witness ==
    /\ calls[1].pc = "rejected" /\ calls[1].facade = "getUtxos"
    /\ calls[1].ret.err.code = {-1001}
    /\ calls[1].ret.err.msg =
         <<"Invalid Bitcoin address: length must be between 20-100 characters">>
    /\ cache # EmptyMap
    /\ metrics.requestCount = 1

\* getTransactionHex has rejected a txid on the same kind of client
C17_TxidRejected ==
    /\ calls[1].pc = "rejected" /\ calls[1].facade = "getTransactionHex"
    /\ calls[1].ret.err.code = {-1002}
    /\ cache # EmptyMap
    /\ metrics.requestCount = 1

C19_CacheDisabled ==
    [][\A c \in Callers :
          ~config.cache
          => /\ GetStarts(c)
                => /\ calls'[c].pc = "flight"
                   /\ calls'[c].sent = 1
                   /\ calls'[c].lookup = "off"
                   /\ cache' = cache
                   /\ metrics' = metrics
             /\ (Settles(c) /\ calls[c].method = "get")
                => /\ cache' = cache
                   /\ metrics'.cacheHits = metrics.cacheHits
                   /\ metrics'.cacheMisses = metrics.cacheMisses]_vars

\* two requests have resolved on a client built with cache off, the second
\* a get of a path that the first had fetched: the map is empty, nothing was
\* counted as hit or miss
C19_Witness ==
    /\ ~config.cache
    /\ ops = MaxOps
    /\ cache = EmptyMap
    /\ metrics.requestCount = 2
    /\ metrics.errorCount = 0
    /\ metrics.cacheHits = 0
    /\ metrics.cacheMisses = 0
    /\ \E c \in Callers :
         /\ calls[c].pc = "resolved"
         /\ calls[c].method = "get"
         /\ calls[c].sent = 1
         /\ calls[c].start > 0

\* a response below status 400 that declares gzip or deflate, whose bytes as
\* received are not a JSON text and whose decompressed bytes are
CompressedJson(t) ==
    /\ t.kind = "response"
    /\ t.statusCode < 400
    /\ t.encoding \in {"gzip", "deflate"}
    /\ ~t.nativeOk
    /\ t.manualOk

\* C20: an attempt of AdvancedHttpClient.get that received a gzip or deflate
\* response whose bytes are not JSON as received but are JSON once
\* decompressed ends the call resolved with the unwrapped value of the
\* decompressed body, not with an error and not with a retry.
C20_ManualDecodeResolves ==
    \A c \in Callers :
        (/\ client = "adv"
         /\ calls[c].method = "get"
         /\ calls[c].pc \in {"resolved", "rejected", "wait"}
         /\ CompressedJson(calls[c].cause))
        => /\ calls[c].pc = "resolved"
           /\ calls[c].out = advProcessResponse(calls[c].cause.body)

\* a response below status 400 whose bytes are a JSON text neither as
\* received nor decompressed
DecodeFails(t) ==
    /\ t.kind = "response"
    /\ t.statusCode < 400
    /\ ~t.nativeOk
    /\ ~t.manualOk

\* C21: an attempt of AdvancedHttpClient.get or post whose response cannot be
\* decoded either way ends the call: it has rejected with the decode
\* SatsnetApiError that carries the diagnostics, and the request was sent
\* once.
C21_DecodeErrorNotRetried ==
    \A c \in Callers :
        (/\ client = "adv"
         /\ calls[c].pc \in {"resolved", "rejected", "wait"}
         /\ DecodeFails(calls[c].cause))
        => /\ calls[c].pc = "rejected"
           /\ calls[c].out.err.cls = "SatsnetApiError"
           /\ calls[c].out.err.data = "diagnostics"
           /\ calls[c].sent = 1

\* the errors an fn rejects with when its transport send timed out: the one
\* HttpClient.get throws, and the raw timeout errors
TimeoutErrors ==
    {HttpTimeout, JsError("AbortError", {}, <<"aborted">>), JsError("Error", {}, <<"timeout">>)}

\* every call of fn made so far ended in a timeout
AlwaysTimesOut ==
    /\ retry.outs # <<>>
    /\ \A i \in 1..Len(retry.outs) :
         ~retry.outs[i].ok /\ retry.outs[i].err \in TimeoutErrors

\* C22: a timeout reaches tryitWithRetry as a timeout-classified
\* SatsnetApiError whose code is not in 400..499, and is retried: when
\* tryitWithRetry returns after fn has timed out every time, fn has been
\* called maxRetries times.
C22_TimeoutRetried ==
    (retry.pc = "done" /\ AlwaysTimesOut)
    => /\ retry.res.err.cls = "SatsnetApiError"
       /\ retry.res.err.msg[1] \in {"Request timeout", "Request timeout: "}
       /\ ~IsClientError(retry.res.err)
       /\ Len(retry.outs) = retry.max

\* C23: while two gets of the same identity are in flight together, the
\* request of that identity has been sent at most once.
C23_InFlightDeduplicated ==
    \A c1 \in Callers : \A c2 \in Callers \ {c1} :
        (/\ calls[c1].method = "get" /\ calls[c1].pc = "flight"
         /\ calls[c2].method = "get" /\ calls[c2].pc = "flight"
         /\ calls[c1].key = calls[c2].key)
        => calls[c1].sent + calls[c2].sent <= 1

\* the step in which the call of slot c sends a request
Sends(c) == calls'[c].pc = "flight" /\ calls[c].pc # "flight"

\* C24: the pool in use changes only by being asked to close and, once that
\* is done, by being replaced with a new pool; a request sent while the pool
\* in use is open goes to that pool; a call that rejects does so with a
\* SatsnetApiError; every call in progress, whatever the pool does meanwhile,
\* eventually settles, and a teardown that has begun ends with an open pool.
C24_TeardownSettles ==
    /\ [][dispatcher' # dispatcher
            => \/ /\ dispatcher.state = "open"
                  /\ dispatcher' = [dispatcher EXCEPT !.state = "closing"]
               \/ /\ dispatcher.state = "closing"
                  /\ dispatcher' = NewPool(config', dispatcher.gen + 1)]_vars
    /\ [][\A c \in Callers :
            (client = "adv" /\ Sends(c)) => calls'[c].pool = dispatcher.gen]_vars
    /\ [](\A c \in Callers :
            (client = "adv" /\ calls[c].pc = "rejected")
            => calls[c].out.err.cls = "SatsnetApiError")
    /\ \A c \in Callers : InProgress(calls[c]) ~> ~InProgress(calls[c])
    /\ (dispatcher.state = "closing") ~> (dispatcher.state = "open")

\* a get whose first request met the pool closing under it was retried on
\* the pool installed by updateConfig and has resolved
C24_Witness ==
    /\ client = "adv"
    /\ dispatcher = NewPool(config, 1)
    /\ calls[1].method = "get"
    /\ calls[1].pc = "resolved"
    /\ calls[1].sent = 2
    /\ calls[1].pool = 1
    /\ calls[1].last.msg = <<"Unexpected error: ", "The client is closed">>

\* C25: tryitOrDefault(fn, d)(...) resolves, with fn's result when fn
\* resolved and with d when fn threw or rejected; it never rejects.
C25_TryitOrDefault ==
    applied.fn = "tryitOrDefault"
    => /\ applied.res.ok
       /\ applied.o.ok => applied.res.val = applied.o.val
       /\ ~applied.o.ok => applied.res.val = applied.d

\* the same for an fn that does not reject with an object that has neither
\* toString nor valueOf
C25_ExceptUnprintable ==
    (applied.fn = "tryitOrDefault" /\ ~WrapThrows(applied.o.err))
    => /\ applied.res.ok
       /\ applied.o.ok => applied.res.val = applied.o.val
       /\ ~applied.o.ok => applied.res.val = applied.d

\* C26: setNetwork and setBaseUrl set their one setting in the configuration
\* that getConfig returns and leave every other setting as it was; nothing
\* else changes the two settings; and a get that starts builds its URL path
\* from the network the configuration holds at that moment.
C26_NetworkAndBaseUrl ==
    /\ [][\A network \in Networks :
            SetNetworkTo(network) => config' = [config EXCEPT !.network = network]]_vars
    /\ [][\A baseUrl \in BaseUrls :
            SetBaseUrlTo(baseUrl) => config' = [config EXCEPT !.baseUrl = baseUrl]]_vars
    /\ [][config'.network # config.network => SetNetworkTo(config'.network)]_vars
    /\ [][config'.baseUrl # config.baseUrl => SetBaseUrlTo(config'.baseUrl)]_vars
    /\ [][\A c \in Callers :
            (client = "http" /\ GetStarts(c))
            => /\ Len(calls'[c].key.pathname) = 3
               /\ calls'[c].key.pathname[1] = config.chain
               /\ calls'[c].key.pathname[2] = config.network]_vars

\* after setNetwork("testnet") a get is in flight for a testnet path, with
\* the rest of the configuration as the client was built
C26_Witness ==
    /\ client = "http"
    /\ config.network = "testnet"
    /\ [config EXCEPT !.network = "mainnet"] \in
         {EngineConfig(cacheOn, metricsOn, 0) : cacheOn, metricsOn \in BOOLEAN}
    /\ calls[1].method = "get"
    /\ calls[1].pc = "flight"
    /\ calls[1].key.pathname[2] = "testnet"

\* C27: clearCache empties the cache map, sets cacheHits and cacheMisses to
\* 0 and leaves requestCount, errorCount, totalLatency, averageLatency and
\* the configuration as they were.
C27_ClearCacheFrame ==
    [][ClearCache
        => /\ cache' = EmptyMap
           /\ metrics' = [metrics EXCEPT !.cacheHits = 0, !.cacheMisses = 0]
           /\ metrics'.cacheHits = 0 /\ metrics'.cacheMisses = 0
           /\ metrics'.requestCount = metrics.requestCount
           /\ metrics'.errorCount = metrics.errorCount
           /\ metrics'.totalLatency = metrics.totalLatency
           /\ metrics'.averageLatency = metrics.averageLatency
           /\ config' = config]_vars

\* a get that counted a miss has resolved and its request was counted, and
\* the miss counter is back at 0 with the map empty
C27_Witness ==
    /\ client = "http"
    /\ config.cache
    /\ cache = EmptyMap
    /\ metrics.cacheHits = 0
    /\ metrics.cacheMisses = 0
    /\ metrics.requestCount = 1
    /\ metrics.totalLatency = 1
    /\ \E c \in Callers :
         /\ calls[c].method = "get"
         /\ calls[c].pc = "resolved"
         /\ calls[c].lookup = "absent"

\* the step in which the get of slot c, having received a response, stores it
Stores(c) ==
    /\ calls[c].pc = "flight"
    /\ calls[c].method = "get"
    /\ calls'[c].pc # "flight"
    /\ config.cache
    /\ calls'[c].cause.kind = "response"
    /\ client = "adv"
       => calls'[c].cause.statusCode = 200 /\ safeParseJson(calls'[c].cause).ok

\* what a lookup of cacheKey at time t finds in cache c
Lookup(c, t, cacheKey) ==
    IF client = "http" THEN checkCache(config, t, c, metrics, cacheKey)
    ELSE advCheckCache(config, t, c, metrics, cacheKey)

\* C28: a store sets the timer of the sweep exactly when it leaves more than
\* MaxEntries entries in the cache; the sweep, whenever it runs, deletes the
\* entries older than cacheMaxAge at that moment and no other, so that a
\* lookup of any key, then or later, returns the same with the swept cache
\* as with the unswept one.
C28_SweepOnlyExpired ==
    /\ [][\A c \in Callers :
            Stores(c)
            => sweeps'.set = sweeps.set
                  + (IF Cardinality(DOMAIN cache') > MaxEntries THEN 1 ELSE 0)]_vars
    /\ [][Sweep
            => /\ DOMAIN cache' \subseteq DOMAIN cache
               /\ \A key \in DOMAIN cache :
                    IF now - cache[key].timestamp > config.cacheMaxAge
                    THEN key \notin DOMAIN cache'
                    ELSE key \in DOMAIN cache' /\ cache'[key] = cache[key]
               /\ \A key \in DOMAIN cache : \A t \in now..MaxTime :
                    /\ Lookup(cache', t, key).data = Lookup(cache, t, key).data
                    /\ Lookup(cache', t, key).hit = Lookup(cache, t, key).hit]_vars

\* two gets have stored their responses, the second store set the timer, and
\* the sweep has run: of the two entries the expired one is gone and the
\* live one is still there
C28_Witness ==
    /\ client = "http"
    /\ ops = MaxOps
    /\ metrics.requestCount = 2
    /\ sweeps = [set |-> 1, run |-> 1]
    /\ Cardinality(DOMAIN cache) = 1
    /\ \A key \in DOMAIN cache : now - cache[key].timestamp <= config.cacheMaxAge

\* C29: the response cache is bounded: once every sweep that the stores have
\* scheduled has run, the cache holds at most MaxEntries entries.
C29_CacheBounded ==
    sweeps.run = sweeps.set => Cardinality(DOMAIN cache) <= MaxEntries

\* call i of fn failed with an error that wrapError gives a code outside
\* 400..499
FailedTransient(i) ==
    /\ ~retry.outs[i].ok
    /\ ~WrapThrows(retry.outs[i].err)
    /\ ~IsClientError(wrapError(retry.outs[i].err))

\* C30: when the first k-1 calls of fn fail with a non-4xx error and call
\* k <= maxRetries succeeds with v, tryitWithRetry calls fn exactly k times,
\* waits k-1 times, returns (null, v) and does nothing further; after fewer
\* than maxRetries such failures it is still going to call fn again.
C30_SuccessAtAttemptK ==
    /\ [](\A k \in 1..Len(retry.outs) :
            (/\ retry.outs[k].ok
             /\ \A i \in 1..(k - 1) : FailedTransient(i))
            => /\ k <= retry.max
               /\ Len(retry.outs) = k
               /\ retry.waits = k - 1
               /\ retry.pc = "done"
               /\ retry.res = Pair(NoError, retry.outs[k].val))
    /\ []((/\ retry.pc # "idle"
           /\ Len(retry.outs) < retry.max
           /\ \A i \in 1..Len(retry.outs) : FailedTransient(i))
          => \/ retry.pc = "wait" /\ retry.attempt = Len(retry.outs)
             \/ retry.pc = "loop" /\ retry.attempt = Len(retry.outs) + 1)
    /\ [][retry.pc = "done" => retry' = RetryIdle]_vars

\* fn failed twice with a 5xx error and a network error, then succeeded at
\* the third and last permitted call
C30_Witness ==
    /\ retry.pc = "done"
    /\ retry.max = 3
    /\ Len(retry.outs) = 3
    /\ retry.outs[1] = Reject(SatsnetApiError(<<"HTTP ", "Request Failed">>, 503, "http"))
    /\ retry.outs[2] = Reject(JsError("FetchError", {}, <<"fetch">>))
    /\ retry.outs[3] = Resolve(Prim("d1"))
    /\ retry.waits = 2
    /\ retry.res = Pair(NoError, Prim("d1"))

\* C31: every call of the batch has been dispatched when the request of any
\* of them settles, whatever the calls before it did; the batch settles only
\* when no call of it is pending; a call that settles, failing or not,
\* leaves the other calls in flight as they were; and a call that resolves
\* stores its response and counts its request, whatever the other calls of
\* the batch did or will do.
C31_BatchNoCancellation ==
    /\ [][\A c \in Callers :
            (calls[c].pc = "flight" /\ calls'[c].pc # "flight")
            => /\ batch.pc = "flight"
               /\ batch.next = Len(batch.methods) + 1
               /\ \A i \in DOMAIN batch.slots : batch.slots[i] # 0]_vars
    /\ [](batch.pc = "flight" => \A i \in DOMAIN batch.slots : batch.slots[i] # 0)
    /\ []((batch.pc = "done" /\ batch.outs # <<>>)
          => /\ Len(batch.outs) = Len(batch.methods)
             /\ \A i \in DOMAIN batch.outs : batch.outs[i] # Pending
             /\ \A c \in Callers : ~InProgress(calls[c]))
    /\ [][\A c, d \in Callers :
            (c # d /\ Settles(c) /\ InProgress(calls[d])) => calls'[d] = calls[d]]_vars
    /\ [][\A c \in Callers :
            (Settles(c) /\ calls'[c].pc = "resolved")
            => /\ config.cache
                  => /\ calls'[c].key \in DOMAIN cache'
                     /\ cache'[calls'[c].key] =
                          [data |-> calls'[c].cause.body, timestamp |-> now]
               /\ config.metrics
                  => metrics'.requestCount = metrics.requestCount + 1]_vars

\* a batch of two calls, both sent, has rejected because its first call
\* failed; the response of its second call is in the cache and both requests
\* were counted
C31_Witness ==
    /\ batch.pc = "done"
    /\ batch.res.st = "rejected"
    /\ Len(batch.outs) = 2
    /\ batch.slots = <<1, 2>>
    /\ ~batch.outs[1].ok
    /\ batch.outs[2].ok
    /\ Cardinality(DOMAIN cache) = 1
    /\ \A key \in DOMAIN cache : key.pathname[3] = TxPath([len |-> TxidLength, hex |-> TRUE])
    /\ metrics.requestCount = 2
    /\ metrics.errorCount = 1

\* C32: once updateConfig has resolved, the pool in use was created with the
\* pool size and the keep-alive setting of the current configuration.
C32_PoolMatchesConfig ==
    (client = "adv" /\ dispatcher.state = "open")
    => /\ dispatcher.keepAlive = config.keepAlive
       /\ dispatcher.connections = config.connections

\* C33: whatever maxRetries is, tryitWithRetry has called fn at least once
\* when it returns, and the pair it returns holds either an error or the
\* value fn resolved to.
C33_AtLeastOneAttempt ==
    retry.pc = "done"
    => /\ Len(retry.outs) >= 1
       /\ retry.res.st = "fulfilled" => (retry.res.err # NoError \/ Last(retry.outs).ok)

\* C33, for AdvancedHttpClient.get: a get that has resolved was served from
\* the cache or has sent a request.
C33_AdvGetSends ==
    \A c \in Callers :
        (client = "adv" /\ calls[c].method = "get" /\ calls[c].pc = "resolved")
        => (calls[c].hit \/ calls[c].sent >= 1)

\* C34: the errors and the values that tryitAll returns for N operations
\* number N together: every operation that has settled contributes one
\* element to one of the two.
C34_TryitAllCounts ==
    AllSettled
    => LET all == tryitAll(batch.outs)
       IN  Len(all.errors) + Len(all.values) = Len(batch.outs)

\* the get of slot c looked the cache up when it was issued, which counted a
\* hit or a miss, and both counters are 0: clearCache has run since
ClearedInFlight(c) ==
    /\ calls[c].pc = "flight"
    /\ calls[c].method = "get"
    /\ calls[c].lookup \in {"absent", "expired", "hit"}
    /\ metrics.cacheHits = 0
    /\ metrics.cacheMisses = 0

\* C35: a cache emptied by clearCache stays empty when a get that was in
\* flight while clearCache ran completes: only a get issued afterwards
\* stores its response.
C35_NoStoreAfterClear ==
    [][\A c \in Callers :
          (ClearedInFlight(c) /\ cache = EmptyMap /\ Settles(c)) => cache' = EmptyMap]_vars

\* the configurations differ in baseUrl, chain or network
Reconfigured(cfg1, cfg2) ==
    \/ cfg1.baseUrl # cfg2.baseUrl
    \/ cfg1.chain # cfg2.chain
    \/ cfg1.network # cfg2.network

\* C36: a value cached under one baseUrl, chain and network is not served
\* once one of the three has changed.  When the change is the second
\* operation on the client, whatever the cache holds was cached by the first
\* under the configuration being replaced: a lookup made under the new
\* configuration right after the change returns nothing, for every request.
C36_NotServedAcrossConfigs ==
    [][(client = "http" /\ ops = 1 /\ Reconfigured(config, config'))
        => \A req \in Requests :
             LET cacheKey == createCacheKey(buildUrl(config', req.path, req.params))
             IN  ~Truthy(checkCache(config', now', cache', metrics', cacheKey).data)]_vars

\* C36, for the network alone: the keys of two networks differ, so nothing
\* cached for one network answers a request for the other
C36_NetworkInKey ==
    \A n1, n2 \in Networks : \A req \in Requests :
        n1 # n2
        => createCacheKey(buildUrl([config EXCEPT !.network = n1], req.path, req.params))
           # createCacheKey(buildUrl([config EXCEPT !.network = n2], req.path, req.params))

\* the step that starts a get of slot c on an HttpClient with the cache on
CachedGetStarts(c) == client = "http" /\ config.cache /\ GetStarts(c)

\* C37: on HttpClient with the cache on, every get adds 1 to exactly one of
\* cacheHits and cacheMisses, and it adds it to cacheHits exactly when the
\* get is answered from the cache, so that cacheHits / (cacheHits +
\* cacheMisses) is the share of the gets that were answered from the cache.
C37_HitRateTrue ==
    [][\A c \in Callers :
          CachedGetStarts(c)
          => /\ metrics'.cacheHits + metrics'.cacheMisses
                  = metrics.cacheHits + metrics.cacheMisses + 1
             /\ metrics'.cacheHits = metrics.cacheHits + 1
                  <=> (calls'[c].pc = "resolved" /\ calls'[c].sent = 0)]_vars

\* C37, the counting alone: every get adds 1 to exactly one of the two
\* counters, and nothing but a get or clearCache changes them
C37_OneCounterPerGet ==
    /\ [][\A c \in Callers :
            CachedGetStarts(c)
            => \/ /\ metrics'.cacheHits = metrics.cacheHits + 1
                  /\ metrics'.cacheMisses = metrics.cacheMisses
               \/ /\ metrics'.cacheHits = metrics.cacheHits
                  /\ metrics'.cacheMisses = metrics.cacheMisses + 1]_vars
    /\ [][(client = "http" /\ ~ClearCache /\ ~\E c \in Callers : CachedGetStarts(c))
            => /\ metrics'.cacheHits = metrics.cacheHits
               /\ metrics'.cacheMisses = metrics.cacheMisses]_vars

\* a step of a post in slot c: it starts, is retried or settles
PostStep(c) == calls'[c] # calls[c] /\ calls'[c].method = "post"

\* C38, the cache alone: no step of a post changes the cache map, cacheHits
\* or cacheMisses.
C38_PostLeavesCache ==
    [][\A c \in Callers :
          PostStep(c)
          => /\ cache' = cache
             /\ metrics'.cacheHits = metrics.cacheHits
             /\ metrics'.cacheMisses = metrics.cacheMisses]_vars

\* C38: a post neither reads nor writes the cache, and a post that has
\* settled has sent at least one request, whatever was answered before it.
C38_PostAlwaysSends ==
    /\ C38_PostLeavesCache
    /\ [](\A c \in Callers :
            (calls[c].method = "post" /\ calls[c].pc \in {"resolved", "rejected"})
            => calls[c].sent >= 1)

\* the batch that is starting names a method batchRequest does not support
StartsUnsupported ==
    /\ batch.pc = "idle"
    /\ batch'.pc # "idle"
    /\ \E i \in DOMAIN batch'.methods : batch'.methods[i] \notin EngineMethods

\* C39: a batch that names an unsupported method, at any place of the list,
\* rejects with the SatsnetApiError of code -1 in the step that starts it:
\* no call of it is dispatched, nothing is sent, and the client's cache,
\* metrics and calls are as they were.
C39_UnsupportedRejectsUnsent ==
    /\ [][StartsUnsupported
            => /\ batch'.pc = "done"
               /\ batch'.res.st = "rejected"
               /\ batch'.res.code = {-1}
               /\ batch'.res.msg[1] = "Unsupported batch method: "
               /\ batch'.outs = <<>>
               /\ \A i \in DOMAIN batch'.slots : batch'.slots[i] = 0
               /\ cache' = cache
               /\ metrics' = metrics
               /\ calls' = calls]_vars
    /\ []((batch.pc \in {"dispatch", "flight"})
          => \A i \in DOMAIN batch.methods : batch.methods[i] \in EngineMethods)

\* a batch whose second request names an unsupported method has rejected;
\* its first request, a getUtxos with a good address, was never dispatched
C39_Witness ==
    /\ batch.pc = "done"
    /\ batch.methods = <<"getUtxos", "bogus">>
    /\ batch.params[1] = [len |-> MinAddressLength, blank |-> FALSE]
    /\ batch.res.st = "rejected"
    /\ batch.res.msg = <<"Unsupported batch method: ", "bogus">>
    /\ batch.slots = <<0, 0>>
    /\ ops = 0
    /\ cache = EmptyMap
    /\ metrics = ZeroMetrics
    /\ \A c \in Callers : calls[c] = IdleCall

====
